---- MODULE Spec2Model ----
(***************************************************************************)
(* Model of win2xcur-gui: the INF descriptor parser (src/src/inf_parser.py)*)
(* and the multi-size frame synthesis of CursorConverter.convert_cursor    *)
(* (src/src/converter.py).                                                 *)
(*                                                                         *)
(* Text is modelled as a sequence of one-character strings, so that case   *)
(* folding, stripping, splitting and the regular expressions of the parser *)
(* are computed character by character, as the code computes them.         *)
(***************************************************************************)
EXTENDS Integers, Sequences, FiniteSets, TLC

(***************************************************************************)
(* Python str primitives                                                   *)
(***************************************************************************)

\* Python None, kept apart from every text (texts hold one-character strings)
None == <<"<None>">>

UpperChars == <<"A","B","C","D","E","F","G","H","I","J","K","L","M",
                "N","O","P","Q","R","S","T","U","V","W","X","Y","Z">>

LowerChars == <<"a","b","c","d","e","f","g","h","i","j","k","l","m",
                "n","o","p","q","r","s","t","u","v","w","x","y","z">>

DigitChars == {"0","1","2","3","4","5","6","7","8","9"}

\* str.strip() / regex \s
Whitespace == {" ", "\t", "\n", "\r"}

\* regex \w
WordChars == {UpperChars[i] : i \in 1..26} \cup {LowerChars[i] : i \in 1..26}
               \cup DigitChars \cup {"_"}

\* str.lower() on the upper-case letters
LowerMap == [c \in {UpperChars[i] : i \in 1..26} |->
                LowerChars[CHOOSE i \in 1..26 : UpperChars[i] = c]]

\* str.lower() on one character
LowerChar(c) == IF c \in DOMAIN LowerMap THEN LowerMap[c] ELSE c

\* str.lower()
Lower(s) == <<>> \o [i \in 1..Len(s) |-> LowerChar(s[i])]

\* the least element of a non-empty set of integers
Least(S) == CHOOSE x \in S : \A y \in S : x <= y

\* str.startswith(pat) at offset i (1-based)
MatchAt(s, pat, i) ==
    /\ i >= 1
    /\ i + Len(pat) - 1 <= Len(s)
    /\ \A k \in 1..Len(pat) : s[i + k - 1] = pat[k]

StartsWith(s, pat) == MatchAt(s, pat, 1)

EndsWith(s, pat) == MatchAt(s, pat, Len(s) - Len(pat) + 1)

\* str.find(pat, i): first index >= i at which pat occurs, 0 when there is none
Find(s, pat, i) ==
    LET hits == {j \in i..(Len(s) - Len(pat) + 1) : MatchAt(s, pat, j)}
    IN  IF hits = {} THEN 0 ELSE Least(hits)

\* pat in s
Contains(s, pat) == Find(s, pat, 1) # 0

\* first index >= i whose character is not in set cs (Len(s)+1 when none)
SkipChars(s, cs, i) ==
    LET other == {j \in i..Len(s) : s[j] \notin cs}
    IN  IF other = {} THEN Len(s) + 1 ELSE Least(other)

\* first index >= i whose character is in set cs (Len(s)+1 when none)
SkipUntil(s, cs, i) ==
    LET hits == {j \in i..Len(s) : s[j] \in cs}
    IN  IF hits = {} THEN Len(s) + 1 ELSE Least(hits)

\* last index <= i whose character is not in set cs (0 when none)
SkipCharsBack(s, cs, i) ==
    LET last == {j \in 1..i : s[j] \notin cs /\ \A k \in (j + 1)..i : s[k] \in cs}
    IN  IF last = {} THEN 0 ELSE CHOOSE j \in last : TRUE

\* str.strip()
Strip(s) ==
    LET a == SkipChars(s, Whitespace, 1)
        b == SkipCharsBack(s, Whitespace, Len(s))
    IN  IF a > b THEN <<>> ELSE SubSeq(s, a, b)

\* str.split(c) for a one-character separator: the pieces between the
\* occurrences of c, in order
Split(s, c) ==
    LET seps   == {j \in 1..Len(s) : s[j] = c}
        pos(k) == IF k = 0 THEN 0
                  ELSE IF k > Cardinality(seps) THEN Len(s) + 1
                  ELSE CHOOSE j \in seps : Cardinality({x \in seps : x < j}) = k - 1
    IN  [k \in 1..(Cardinality(seps) + 1) |-> SubSeq(s, pos(k - 1) + 1, pos(k) - 1)]

(***************************************************************************)
(* Python dict, kept as the sequence of its <<key, value>> items in        *)
(* insertion order                                                         *)
(***************************************************************************)

DictHas(d, k) == \E i \in 1..Len(d) : d[i][1] = k

DictGet(d, k) == d[CHOOSE i \in 1..Len(d) : d[i][1] = k][2]

\* d[k] = v
DictSet(d, k, v) ==
    IF DictHas(d, k)
    THEN [i \in 1..Len(d) |-> IF d[i][1] = k THEN <<k, v>> ELSE d[i]]
    ELSE Append(d, <<k, v>>)

DictKeys(d) == [i \in 1..Len(d) |-> d[i][1]]

(***************************************************************************)
(* constants.py                                                            *)
(***************************************************************************)

WIN_CURSOR_ORDER ==
    <<"arrow", "help", "appstarting", "wait", "crosshair", "ibeam", "pen", "no",
      "ns", "we", "nwse", "nese", "move", "uparrow", "hand">>

(***************************************************************************)
(* INFParser (inf_parser.py)                                               *)
(***************************************************************************)

\* _("Untitled Theme")
UntitledTheme == <<"U","n","t","i","t","l","e","d"," ","T","h","e","m","e">>

\* Encodings with the catch-all latin1 tried first
Encodings_LatinFirst == <<"latin1", "utf-8", "gbk", "gb2312", "utf-16">>

\* the candidate encodings of parse(), in the order they are tried
Encodings == <<"utf-8", "gbk", "gb2312", "utf-16", "latin1">>

\* the outcome of open(..., encoding=e).read() raising UnicodeDecodeError
DecodeError == <<"<UnicodeDecodeError>">>

\* parse(), lines 22-29: the text under the first encoding that decodes, or None
ReadContent(f) ==
    IF \A i \in 1..Len(Encodings) : f[Encodings[i]] = DecodeError
    THEN None
    ELSE f[Encodings[CHOOSE i \in 1..Len(Encodings) :
                        /\ f[Encodings[i]] # DecodeError
                        /\ \A j \in 1..(i - 1) : f[Encodings[j]] = DecodeError]]

\* re.search(rf"\[{name}\](.*?)(?=\n\[|\Z)", content, re.DOTALL) and
\* match.group(1).strip(); None when there is no match
RegexSection(content, name) ==
    LET hdr == <<"[">> \o name \o <<"]">>
        i   == Find(content, hdr, 1)
    IN  IF i = 0 THEN None
        ELSE LET st == i + Len(hdr)
                 e  == Find(content, <<"\n", "[">>, st)
             IN  Strip(SubSeq(content, st, IF e = 0 THEN Len(content) ELSE e - 1))

\* _extract_section
ExtractSection(content, section_name) == RegexSection(content, section_name)

\* re.match(r"addreg\s*=\s*(.+)", line, re.IGNORECASE): group(1), or None
AddregMatch(line) ==
    LET j == SkipChars(line, Whitespace, 7)
    IN  IF ~StartsWith(Lower(line), <<"a","d","d","r","e","g">>) THEN None
        ELSE IF j > Len(line) \/ line[j] # "=" THEN None
        ELSE LET k == SkipChars(line, Whitespace, j + 1)
             IN  IF k <= Len(line) THEN SubSeq(line, k, Len(line))
                 ELSE IF k > j + 1 THEN <<line[Len(line)]>>
                 ELSE None

\* [s.strip().lower() for s in value.split(",") if s.strip()]
SectionNames(value) ==
    LET parts == Split(value, ",")
    IN  SelectSeq([i \in 1..Len(parts) |-> Lower(Strip(parts[i]))],
                  LAMBDA x : x # <<>>)

RECURSIVE AddregScan(_, _)
AddregScan(lines, i) ==
    IF i > Len(lines) THEN <<>>
    ELSE LET line == Strip(lines[i])
         IN  IF line = <<>> \/ StartsWith(line, <<";">>)
             THEN AddregScan(lines, i + 1)
             ELSE LET m == AddregMatch(line)
                  IN  IF m # None THEN SectionNames(Strip(m))
                      ELSE AddregScan(lines, i + 1)

\* _get_addreg_sections
GetAddregSections(content) ==
    LET default_install ==
            ExtractSection(content, <<"d","e","f","a","u","l","t","i","n","s","t","a","l","l">>)
    IN  IF default_install = None \/ default_install = <<>> THEN <<>>
        ELSE AddregScan(Split(default_install, "\n"), 1)

\* where the match of "([^"]*(?:""[^"]*)*)" that opens at a quote ends: j is the
\* position after [^"]*, prev the first quote of the last "" pair taken (0: none)
RECURSIVE QuoteEnd(_, _, _)
QuoteEnd(s, j, prev) ==
    IF j > Len(s) THEN prev
    ELSE IF j < Len(s) /\ s[j + 1] = "\""
         THEN QuoteEnd(s, SkipUntil(s, {"\""}, j + 2), j)
         ELSE j

\* re.findall(r'"([^"]*(?:""[^"]*)*)"', line), scanning from index i
RECURSIVE QuotedParts(_, _)
QuotedParts(s, i) ==
    LET p == SkipUntil(s, {"\""}, i)
    IN  IF p > Len(s) THEN <<>>
        ELSE LET e == QuoteEnd(s, SkipUntil(s, {"\""}, p + 1), 0)
             IN  IF e = 0 THEN QuotedParts(s, p + 1)
                 ELSE <<SubSeq(s, p + 1, e - 1)>> \o QuotedParts(s, e + 1)

\* the three substrings a scheme line must hold (line 127)
IsSchemeLine(line) ==
    /\ Contains(Lower(line), <<"c","o","n","t","r","o","l"," ","p","a","n","e","l">>)
    /\ Contains(Lower(line), <<"c","u","r","s","o","r","s">>)
    /\ Contains(Lower(line), <<"s","c","h","e","m","e","s">>)

\* lines 126-137: the first qualifying line with two quoted tokens, or None
RECURSIVE SchemeLineScan(_, _)
SchemeLineScan(hkcu_lines, i) ==
    IF i > Len(hkcu_lines) THEN None
    ELSE IF ~IsSchemeLine(hkcu_lines[i]) THEN SchemeLineScan(hkcu_lines, i + 1)
    ELSE LET parts == QuotedParts(hkcu_lines[i], 1)
         IN  IF Len(parts) < 2 THEN SchemeLineScan(hkcu_lines, i + 1)
             ELSE <<parts[2], parts[Len(parts)]>>

\* lines 120-124
HkcuLines(section) ==
    LET lines == Split(section, "\n")
    IN  SelectSeq([i \in 1..Len(lines) |-> Strip(lines[i])],
                  LAMBDA l : StartsWith(Lower(l), <<"h","k","c","u">>))

RECURSIVE SchemeSectionScan(_, _, _)
SchemeSectionScan(content, addreg_sections, k) ==
    IF k > Len(addreg_sections) THEN <<None, None>>
    ELSE LET section == RegexSection(content, addreg_sections[k])
         IN  IF section = None
             THEN SchemeSectionScan(content, addreg_sections, k + 1)
             ELSE LET hit == SchemeLineScan(HkcuLines(section), 1)
                  IN  IF hit = None
                      THEN SchemeSectionScan(content, addreg_sections, k + 1)
                      ELSE hit

\* ExtractSchemeReg giving up after the first section of the AddReg directive
ExtractSchemeReg_FirstSection(content, addreg_sections) ==
    SchemeSectionScan(content, SubSeq(addreg_sections, 1, IF Len(addreg_sections) = 0 THEN 0 ELSE 1), 1)

\* _extract_scheme_reg: <<theme_value, cursor_list>>
ExtractSchemeReg(content, addreg_sections) ==
    SchemeSectionScan(content, addreg_sections, 1)

\* re.match(r'(\w+)\s*=\s*"?([^"]+)"?', line): <<key, value>>, or None
StringsMatch(line) ==
    LET e == SkipChars(line, WordChars, 1)
        j == SkipChars(line, Whitespace, e)
        k == SkipChars(line, Whitespace, j + 1)
    IN  IF e = 1 \/ j > Len(line) \/ line[j] # "=" THEN None
        ELSE IF k > Len(line) \/ line[k] = "\""
        THEN IF k < Len(line) /\ line[k + 1] # "\""
             THEN <<SubSeq(line, 1, e - 1),
                    SubSeq(line, k + 1, SkipUntil(line, {"\""}, k + 1) - 1)>>
             ELSE IF k > j + 1
             THEN <<SubSeq(line, 1, e - 1), <<line[k - 1]>> >>
             ELSE None
        ELSE <<SubSeq(line, 1, e - 1),
               SubSeq(line, k, SkipUntil(line, {"\""}, k) - 1)>>

\* str.strip('"')
StripQuotes(s) ==
    LET a == SkipChars(s, {"\""}, 1)
        b == SkipCharsBack(s, {"\""}, Len(s))
    IN  IF a > b THEN <<>> ELSE SubSeq(s, a, b)

RECURSIVE StringsLoop(_, _, _)
StringsLoop(lines, i, result) ==
    IF i > Len(lines) THEN result
    ELSE LET line == Strip(lines[i])
         IN  IF line = <<>> \/ StartsWith(line, <<";">>)
             THEN StringsLoop(lines, i + 1, result)
             ELSE LET m == StringsMatch(line)
                  IN  IF m = None THEN StringsLoop(lines, i + 1, result)
                      ELSE StringsLoop(lines, i + 1,
                               DictSet(result, Lower(m[1]), Strip(StripQuotes(m[2]))))

\* _parse_strings
ParseStrings(strings_content) == StringsLoop(Split(strings_content, "\n"), 1, <<>>)

\* re.search(r'%(\w+)%', s) from index i: group(1), or None
RECURSIVE VarSearch(_, _)
VarSearch(s, i) ==
    LET p == SkipUntil(s, {"%"}, i)
        e == SkipChars(s, WordChars, p + 1)
    IN  IF p > Len(s) THEN None
        ELSE IF e > p + 1 /\ e <= Len(s) /\ s[e] = "%" THEN SubSeq(s, p + 1, e - 1)
        ELSE VarSearch(s, p + 1)

\* ThemeName without the placeholder for a missing or empty theme value
ThemeName_NoPlaceholder(theme_value, string_vars) ==
    IF theme_value = None \/ theme_value = <<>> THEN <<>>
    ELSE IF Contains(theme_value, <<"%">>)
    THEN LET var_match == VarSearch(theme_value, 1)
         IN  IF var_match # None /\ DictHas(string_vars, Lower(var_match))
             THEN DictGet(string_vars, Lower(var_match))
             ELSE UntitledTheme
    ELSE theme_value

\* parse(), lines 47-63: the theme name from the scheme line's second token
ThemeName(theme_value, string_vars) ==
    IF theme_value = None \/ theme_value = <<>> THEN UntitledTheme
    ELSE IF Contains(theme_value, <<"%">>)
    THEN LET var_match == VarSearch(theme_value, 1)
         IN  IF var_match = None THEN UntitledTheme
             ELSE IF DictHas(string_vars, Lower(var_match))
             THEN DictGet(string_vars, Lower(var_match))
             ELSE UntitledTheme
    ELSE theme_value

\* last_segment.lower().endswith(('.cur', '.ani'))
IsCursorFile(last_segment) ==
    \/ EndsWith(Lower(last_segment), <<".","c","u","r">>)
    \/ EndsWith(Lower(last_segment), <<".","a","n","i">>)

\* FirstCursorIndex resuming after the roles an earlier call assigned
FirstCursorIndex_Resume(cursor_files) == Len(cursor_files)

\* the index at which _parse_cursor_mapping starts (line 159)
FirstCursorIndex(cursor_files) == 0

\* AfterEmptyEntry with an empty entry taking up the role at its position
AfterEmptyEntry_Consumes(cursor_index) == cursor_index + 1

\* what an empty part, or an empty last segment, does to cursor_index (lines 162, 172)
AfterEmptyEntry(cursor_index) == cursor_index

\* one iteration of the loop of _parse_cursor_mapping (lines 160-190) on
\* st = [cursor_index, cursor_files, stop]
MappingStep(st, raw_part, string_vars) ==
    LET part         == Strip(raw_part)
        segments     == Split(part, "\\")
        last_segment == Strip(segments[Len(segments)])
        win_cursor_type == WIN_CURSOR_ORDER[st.cursor_index + 1]
        var_match    == VarSearch(last_segment, 1)
    IN  IF st.stop THEN st
        ELSE IF part = <<>>
        THEN [st EXCEPT !.cursor_index = AfterEmptyEntry(st.cursor_index)]
        ELSE IF st.cursor_index >= Len(WIN_CURSOR_ORDER) THEN [st EXCEPT !.stop = TRUE]
        ELSE IF last_segment = <<>>
        THEN [st EXCEPT !.cursor_index = AfterEmptyEntry(st.cursor_index)]
        ELSE IF Contains(last_segment, <<"%">>)
        THEN IF var_match # None /\ DictHas(string_vars, Lower(var_match))
             THEN [st EXCEPT
                     !.cursor_files = DictSet(@, win_cursor_type,
                                              DictGet(string_vars, Lower(var_match))),
                     !.cursor_index = @ + 1]
             ELSE st
        ELSE IF IsCursorFile(last_segment)
        THEN [st EXCEPT !.cursor_files = DictSet(@, win_cursor_type, last_segment),
                        !.cursor_index = @ + 1]
        ELSE st

RECURSIVE MappingLoop(_, _, _, _)
MappingLoop(parts, i, st, string_vars) ==
    IF i > Len(parts) THEN st
    ELSE MappingLoop(parts, i + 1, MappingStep(st, parts[i], string_vars), string_vars)

\* _parse_cursor_mapping: self.cursor_files after the call
ParseCursorMapping(cursor_files, scheme_reg, string_vars) ==
    MappingLoop(Split(scheme_reg, ","), 1,
                [cursor_index |-> FirstCursorIndex(cursor_files),
                 cursor_files |-> cursor_files, stop |-> FALSE],
                string_vars).cursor_files

\* parse(), lines 34-69, on the decoded text: the fields of the parser after it,
\* with the arguments handed to _parse_cursor_mapping (None when it is not called)
Analyze(self, text) ==
    LET content         == Lower(text)
        strings_section == ExtractSection(content, <<"s","t","r","i","n","g","s">>)
        addreg_sections == GetAddregSections(content)
        reg             == ExtractSchemeReg(content, addreg_sections)
        theme_value     == reg[1]
        scheme_reg      == reg[2]
        string_vars     == IF strings_section # None /\ strings_section # <<>>
                           THEN ParseStrings(strings_section) ELSE <<>>
        called          == scheme_reg # None /\ scheme_reg # <<>>
    IN  [theme_name   |-> ThemeName(theme_value, string_vars),
         cursor_files |-> IF called
                          THEN ParseCursorMapping(self.cursor_files, scheme_reg, string_vars)
                          ELSE self.cursor_files,
         ret          |-> TRUE,
         handed       |-> IF called THEN <<scheme_reg, string_vars>> ELSE None]

\* INFParser.parse
ParseCall(self, f) ==
    LET content == ReadContent(f)
    IN  IF content = None
        THEN [theme_name |-> self.theme_name, cursor_files |-> self.cursor_files,
              ret |-> FALSE, handed |-> None]
        ELSE Analyze(self, content)

(***************************************************************************)
(* Descriptor texts                                                        *)
(***************************************************************************)

\* [DefaultInstall] with no AddReg directive
DI_NoAddReg ==
    <<"[","D","e","f","a","u","l","t","I","n","s","t","a","l","l","]","\n","C","o","p",
      "y","F","i","l","e","s"," ","="," ","S","c","h","e","m","e",".","C","u","r","\n">>

\* AddReg = Scheme.Reg
DI_SchemeReg ==
    <<"[","D","e","f","a","u","l","t","I","n","s","t","a","l","l","]","\n","C","o","p",
      "y","F","i","l","e","s"," ","="," ","S","c","h","e","m","e",".","C","u","r","\n",
      "A","d","d","R","e","g"," ","="," ","S","c","h","e","m","e",".","R","e","g","\n">>

\* AddReg = Wreg, Scheme.Reg
DI_TwoSections ==
    <<"[","D","e","f","a","u","l","t","I","n","s","t","a","l","l","]","\n","A","d","d",
      "R","e","g"," ","="," ","W","r","e","g",","," ","S","c","h","e","m","e",".","R",
      "e","g","\n">>

\* the scheme line HKCU,"Control Panel\Cursors\Schemes","My Theme","arrow.cur,,,wait.cur"
Reg_MyTheme ==
    <<"[","S","c","h","e","m","e",".","R","e","g","]","\n","H","K","C","U",",","\"","C",
      "o","n","t","r","o","l"," ","P","a","n","e","l","\\","C","u","r","s","o","r","s",
      "\\","S","c","h","e","m","e","s","\"",",","\"","M","y"," ","T","h","e","m","e",
      "\"",",","\"","a","r","r","o","w",".","c","u","r",",",",",",","w","a","i","t",".",
      "c","u","r","\"","\n">>

\* [Scheme.Reg] with no qualifying HKCU line
Reg_NoSchemeLine ==
    <<"[","S","c","h","e","m","e",".","R","e","g","]","\n","H","K","L","M",",","\"","S",
      "o","f","t","w","a","r","e","\\","C","u","r","s","o","r","s","\"",",","\"","a",
      "\"",",","\"","b",".","c","u","r","\"","\n">>

\* a scheme line with one quoted token, then one naming the theme and the cursors by %variables%
Reg_Variables ==
    <<"[","S","c","h","e","m","e",".","R","e","g","]","\n","H","K","C","U",",","\"","C",
      "o","n","t","r","o","l"," ","P","a","n","e","l","\\","C","u","r","s","o","r","s",
      "\\","S","c","h","e","m","e","s","\"","\n","H","K","C","U",",","\"","C","o","n",
      "t","r","o","l"," ","P","a","n","e","l","\\","C","u","r","s","o","r","s","\\","S",
      "c","h","e","m","e","s","\"",",","\"","%","N","a","m","e","%","\"",",",",","\"",
      "%","1","0","%","\\","%","D","i","r","%","\\","%","P","%",",","%","1","0","%",
      "\\","%","D","i","r","%","\\","%","Q","%",",","B","u","s","y",".","A","N","I",
      "\"","\n">>

\* [Wreg] without a scheme line, then [Scheme.Reg] naming the theme by an undefined variable
Reg_Wreg ==
    <<"[","W","r","e","g","]","\n","H","K","C","U",",","\"","C","o","n","t","r","o","l",
      " ","P","a","n","e","l","\\","C","u","r","s","o","r","s","\"",",",",","0","x","1",
      "0","0","0","0",",","\"","%","N","m","%","\"","\n","[","S","c","h","e","m","e",
      ".","R","e","g","]","\n","H","K","C","U",",","\"","C","o","n","t","r","o","l"," ",
      "P","a","n","e","l","\\","C","u","r","s","o","r","s","\\","S","c","h","e","m","e",
      "s","\"",",","\"","%","N","m","%","\"",",","\"","%","1","0","%","\\","c","\\","a",
      "r","r","o","w",".","c","u","r",",","h","e","l","p",".","t","x","t","\"","\n">>

\* [Strings] defining Name, Dir and P
Str_Full ==
    <<"[","S","t","r","i","n","g","s","]","\n","N","a","m","e"," ","="," ","\"","M","y",
      " ","T","h","e","m","e","\"","\n","D","i","r"," ","="," ","\"","C","u","r","s",
      "o","r","s","\\","M","y","\"","\n","P"," ","="," ","\"","A","r","r","o","w",".",
      "c","u","r","\"","\n">>

\* [Strings] defining Name as the empty text
Str_EmptyName ==
    <<"[","S","t","r","i","n","g","s","]","\n",";"," ","n","a","m","e","s","\n","N","a",
      "m","e"," ","="," ","\"","\"","\n","P","=","w","a","i","t",".","a","n","i","\n">>

\* [Wreg] with a scheme line of one quoted token only, then [Scheme.Reg] with the
\* scheme lines of T2 (b.cur) and T3 (c.cur)
Reg_WregShort ==
    <<"[","W","r","e","g","]","\n","H","K","C","U",",","\"","C","o","n","t","r","o","l",
      " ","P","a","n","e","l","\\","C","u","r","s","o","r","s","\\","S","c","h","e","m",
      "e","s","\"","\n","[","S","c","h","e","m","e",".","R","e","g","]","\n","H","K",
      "C","U",",","\"","C","o","n","t","r","o","l"," ","P","a","n","e","l","\\","C","u",
      "r","s","o","r","s","\\","S","c","h","e","m","e","s","\"",",","\"","T","2","\"",
      ",","\"","b",".","c","u","r","\"","\n","H","K","C","U",",","\"","C","o","n","t",
      "r","o","l"," ","P","a","n","e","l","\\","C","u","r","s","o","r","s","\\","S","c",
      "h","e","m","e","s","\"",",","\"","T","3","\"",",","\"","c",".","c","u","r","\"",
      "\n">>

\* a scheme line up to the opening quote of its cursor list
Reg_ListHead ==
    <<"[","S","c","h","e","m","e",".","R","e","g","]","\n","H","K","C","U",",","\"","C",
      "o","n","t","r","o","l"," ","P","a","n","e","l","\\","C","u","r","s","o","r","s",
      "\\","S","c","h","e","m","e","s","\"",",","\"","T","\"",",","\"">>

\* [Strings] blocks, <<>> being a descriptor without the section
StringsBlocks == {<<>>, Str_Full, Str_EmptyName}

\* [DefaultInstall] blocks
DefaultInstallBlocks == {<<>>, DI_NoAddReg, DI_SchemeReg, DI_TwoSections}

\* registry blocks
RegBlocks == {<<>>, Reg_MyTheme, Reg_NoSchemeLine, Reg_Variables, Reg_Wreg, Reg_WregShort}

Descriptors ==
    {a \o b \o c : a \in DefaultInstallBlocks, b \in RegBlocks, c \in StringsBlocks}

\* the entries a scheme list is drawn from: empty, blank, a defined and an
\* undefined variable, a non-cursor file, a cursor file, a path, a path ending
\* in a separator
SchemeEntries ==
    {<<>>, <<" ">>, <<"%","p","%">>, <<"%","q","%">>, <<"x",".","t","x","t">>,
     <<"z",".","a","n","i">>, <<"c",":","\\","d","\\","y",".","c","u","r">>,
     <<"d","\\">>}

\* longest free prefix of a scheme list
MaxPrefix == 1

\* how many cursor files follow the free prefix of a scheme list
FillerCounts == {0, 13, 15}

\* a.cur, b.cur, ...: the n-th filler entry
FillerEntry(n) == <<LowerChars[n], ".", "c", "u", "r">>

RECURSIVE JoinEntries(_, _)
JoinEntries(entries, i) ==
    IF i > Len(entries) THEN <<>>
    ELSE (IF i > 1 THEN <<",">> ELSE <<>>) \o entries[i] \o JoinEntries(entries, i + 1)

\* lists that mix resolved and unresolved entries: the list of Reg_MyTheme, and
\* one with three resolved entries among four unresolved ones before the fillers
MixedLists ==
    {<<"a","r","r","o","w",".","c","u","r",",",",",",","w","a","i","t",".","c","u","r">>,
     JoinEntries(<< <<"z",".","a","n","i">>, <<>>, <<"%","q","%">>,
                    <<"x",".","t","x","t">>, <<"d","\\">>, <<"%","p","%">>,
                    <<"c",":","\\","d","\\","y",".","c","u","r">> >>
                 \o [k \in 1..13 |-> FillerEntry(k)], 1)}

SchemeLists ==
    {JoinEntries(pre \o [k \in 1..n |-> FillerEntry(k)], 1) :
        pre \in UNION {[1..m -> SchemeEntries] : m \in 0..MaxPrefix},
        n \in FillerCounts}
    \cup MixedLists

\* a descriptor whose scheme line carries the given cursor list
ListDescriptor(list) == DI_SchemeReg \o Reg_ListHead \o list \o <<"\"", "\n">> \o Str_Full

\* a file of ASCII bytes: every candidate encoding but utf-16 decodes it
AsciiFile(text) ==
    [e \in {Encodings[i] : i \in 1..Len(Encodings)} |->
        IF e = "utf-16" THEN DecodeError ELSE text]

(***************************************************************************)
(* Cursor conversion: converter.py, CursorConverter.convert_cursor.        *)
(* A cursor file is the sequence of its frames, a frame the sequence of    *)
(* the nominal sizes of its images. A decoded image records where it came  *)
(* from (frame, slot, decode, and copy when it is a clone), what was done   *)
(* to its pixels (superres, scaled, shadow) and the hot spot convert_cursor *)
(* has given it.                                                           *)
(***************************************************************************)

Max(S) == CHOOSE x \in S : \A y \in S : y <= x

Min(a, b) == IF a < b THEN a ELSE b

\* a message handed to self.log
LogEvent(msg, arg) == [msg |-> msg, arg |-> arg]

\* CursorFrame(images=..., delay=frame.delay); src remembers the source frame
CursorFrame(images, frame) ==
    [src |-> frame.src, delay |-> frame.delay, images |-> images]

\* the hot spot stored in the file for image j of frame k
Hotspot(nominal, k, j) == <<(nominal \div 4) + k, (nominal \div 2) + j>>

\* OpenBlob handing out the objects of one decode kept for every call
OpenBlob_Cached(cursor_data, d) ==
    <<>> \o [k \in 1..Len(cursor_data) |->
        [src |-> k, delay |-> k,
         images |-> <<>> \o [j \in 1..Len(cursor_data[k]) |->
            [nominal |-> cursor_data[k][j], frame |-> k, slot |-> j, decode |-> 1,
             copy |-> 0, hotspot |-> Hotspot(cursor_data[k][j], k, j),
             superres |-> 0, scaled |-> <<>>, shadow |-> FALSE]]]]

\* open_blob(cursor_data), the d-th decode of the file: fresh image objects;
\* an image of nominal size n is n pixels high
OpenBlob(cursor_data, d) ==
    <<>> \o [k \in 1..Len(cursor_data) |->
        [src |-> k, delay |-> k,
         images |-> <<>> \o [j \in 1..Len(cursor_data[k]) |->
            [nominal |-> cursor_data[k][j], frame |-> k, slot |-> j, decode |-> d,
             copy |-> 0, hotspot |-> Hotspot(cursor_data[k][j], k, j),
             superres |-> 0, scaled |-> <<>>, shadow |-> FALSE]]]]

\* the nominal sizes found in the file (lines 274-277)
OriginalSizes(cursor) ==
    UNION {{cursor[k].images[j].nominal : j \in 1..Len(cursor[k].images)} :
              k \in 1..Len(cursor)}

\* next((i for i in images if i.nominal == n), None), as a list of 0 or 1 image
FirstWith(images, n) ==
    LET hits == {j \in 1..Len(images) : images[j].nominal = n}
    IN  IF hits = {} THEN <<>> ELSE <<images[Least(hits)]>>

\* SizePresent with only the largest source size taken from the source
SizePresent_OnlyLargest(target_size, original_sizes) ==
    target_size \in original_sizes /\ target_size = Max(original_sizes)

\* the test of line 468
SizePresent(target_size, original_sizes) == target_size \in original_sizes

\* lines 473-477
MatchingImages(frame, target_size) ==
    SelectSeq(frame.images, LAMBDA img : img.nominal = target_size)

\* lines 470-485: the frames that hold images of the target size, with
\* those images only
ExistingSizeFrames(cursor_temp, target_size) ==
    SelectSeq([k \in 1..Len(cursor_temp) |->
                  CursorFrame(MatchingImages(cursor_temp[k], target_size), cursor_temp[k])],
              LAMBDA fr : Len(fr.images) > 0)

\* SourceImage taking the first image of the frame whatever its size
SourceImage_First(frame, original_size) ==
    IF Len(frame.images) = 0 THEN <<>> ELSE <<frame.images[1]>>

\* lines 517-530: the frame's image of the source size, else its largest one
SourceImage(frame, original_size) ==
    LET img == FirstWith(frame.images, original_size)
    IN  IF Len(img) = 0 /\ Len(frame.images) > 0
        THEN FirstWith(frame.images,
                       Max({frame.images[j].nominal : j \in 1..Len(frame.images)}))
        ELSE img

\* scale_to_frames([temp_frame], scale=target_size / original_size) on one image
ScaleImage(img, target_size, original_size) ==
    [img EXCEPT !.scaled = <<target_size, original_size>>]

\* lines 543-545
FixNominal(img, target_size) == [img EXCEPT !.nominal = target_size]

\* lines 506-545: one frame per source frame, each from its own decode d + k
ScaledSizeFrames(cursor_data, target_size, original_size, d) ==
    <<>> \o [k \in 1..Len(cursor_data) |->
        LET frame == OpenBlob(cursor_data, d + k)[k]
            img   == SourceImage(frame, original_size)
        IN  CursorFrame(IF Len(img) = 0 THEN <<>>
                        ELSE <<FixNominal(ScaleImage(img[1], target_size, original_size),
                                          target_size)>>,
                        frame)]

\* the frames of a cursor that hold an image (those the scale filter is run on)
FramesWithImages(cursor_data) == {k \in 1..Len(cursor_data) : Len(cursor_data[k]) > 0}

\* add_shadow_to_frames(size_frames, ...)
AddShadow(size_frames) ==
    <<>> \o [k \in 1..Len(size_frames) |->
        [size_frames[k] EXCEPT !.images =
            <<>> \o [j \in 1..Len(size_frames[k].images) |->
                [size_frames[k].images[j] EXCEPT !.shadow = TRUE]]]]

\* MergeFrames with the frames a later size has in excess added at the end
MergeFrames_Extend(merged_frames, size_frames, base_frame_count) ==
    IF Len(merged_frames) = 0
    THEN SubSeq(size_frames, 1, Min(base_frame_count, Len(size_frames)))
    ELSE <<>> \o [idx \in 1..Max({Len(merged_frames), Len(size_frames)}) |->
            IF idx > Len(merged_frames) THEN size_frames[idx]
            ELSE IF idx <= Len(size_frames)
            THEN [merged_frames[idx] EXCEPT !.images = @ \o size_frames[idx].images]
            ELSE merged_frames[idx]]

\* lines 571-582 (and 451-460): the first size sets the skeleton, later sizes
\* extend the frames by index
MergeFrames(merged_frames, size_frames, base_frame_count) ==
    IF Len(merged_frames) = 0
    THEN SubSeq(size_frames, 1, Min(base_frame_count, Len(size_frames)))
    ELSE <<>> \o [idx \in 1..Len(merged_frames) |->
            IF idx <= Min(Len(merged_frames), Len(size_frames))
            THEN [merged_frames[idx] EXCEPT !.images = @ \o size_frames[idx].images]
            ELSE merged_frames[idx]]

\* NoImages with the check of line 585 dropped
NoImages_Unchecked(merged_frames) == FALSE

\* line 585
NoImages(merged_frames) ==
    \/ Len(merged_frames) = 0
    \/ \A idx \in 1..Len(merged_frames) : Len(merged_frames[idx].images) = 0

\* the frames that hold an image of the largest source size (lines 314-326)
FramesWithSize(cursor_data, size) ==
    {k \in 1..Len(cursor_data) : \E j \in 1..Len(cursor_data[k]) : cursor_data[k][j] = size}

\* int(round(num / den)): Python rounds a tie to the even neighbour
Round(num, den) ==
    LET q == num \div den
        r == num % den
    IN  IF 2 * r < den THEN q
        ELSE IF 2 * r > den THEN q + 1
        ELSE IF q % 2 = 0 THEN q ELSE q + 1

\* ScaleHotspot with the default _superres_scale of line 25 as the factor
ScaleHotspot_Default(hotspot, num, den) == <<hotspot[1] * 4, hotspot[2] * 4>>

\* (int(hotspot[0] * factor), int(hotspot[1] * factor)) for factor = num / den
\* (lines 366-369 and 413-416)
ScaleHotspot(hotspot, num, den) ==
    <<(hotspot[1] * num) \div den, (hotspot[2] * num) \div den>>

\* the height of the array _apply_superres_to_image returns for an input of
\* height src_h: the input itself when it falls back (lines 147-149, 208-213),
\* else model times the height the network is fed, which is the fixed
\* input_hw of the network when it has one (lines 160-170)
SuperresHeight(src_h, model, input_hw, falls_back) ==
    IF falls_back THEN src_h
    ELSE model * (IF input_hw = 0 THEN src_h ELSE input_hw)

\* lines 309-381: the super-resolved base; heights[k] is the height of the
\* output of _apply_superres_to_image on frame k, sr_h / src_h the factor
\* measured on the first frame processed (lines 333-338), superres_size the
\* nominal size inferred from it
SuperresFrames(cursor_data, max_original_size, superres_size, heights, sr_h, src_h, d) ==
    SelectSeq([k \in 1..Len(cursor_data) |->
                  LET frame == OpenBlob(cursor_data, d + k)[k]
                      img   == FirstWith(frame.images, max_original_size)
                  IN  CursorFrame(IF Len(img) = 0 THEN <<>>
                                  ELSE <<[img[1] EXCEPT
                                             !.superres = heights[k],
                                             !.hotspot = ScaleHotspot(@, sr_h, src_h),
                                             !.nominal = superres_size]>>,
                                  frame)],
              LAMBDA fr : Len(fr.images) > 0)

\* the log of lines 309-387
RECURSIVE SuperresLog(_, _, _, _, _)
SuperresLog(cursor_data, max_original_size, superres_size, k, measured) ==
    IF k > Len(cursor_data) THEN <<LogEvent("superres_complete", superres_size)>>
    ELSE IF k \notin FramesWithSize(cursor_data, max_original_size)
    THEN <<LogEvent("skipping_frame", k - 1)>>
         \o SuperresLog(cursor_data, max_original_size, superres_size, k + 1, measured)
    ELSE (IF measured THEN <<>> ELSE <<LogEvent("using_superres", superres_size)>>)
         \o SuperresLog(cursor_data, max_original_size, superres_size, k + 1, TRUE)

\* the image object a filter is handed: an image of one decode, or the clone
\* of it made for a target size (line 406)
ImageId(img) == <<img.decode, img.frame, img.slot, img.copy>>

\* the images a filter receives in one call on the frames of a target size
FilterCalls(filter, target_size, size_frames) ==
    UNION {{[filter |-> filter, size |-> target_size, frame |-> size_frames[k].src,
             obj |-> ImageId(size_frames[k].images[j])] :
                j \in 1..Len(size_frames[k].images)} : k \in 1..Len(size_frames)}

\* lines 391-431: every base image cloned and the clone resized to the target
\* size
FromSuperres(superres_frames, target_size, superres_size) ==
    <<>> \o [k \in 1..Len(superres_frames) |->
        [superres_frames[k] EXCEPT !.images =
            <<>> \o [j \in 1..Len(superres_frames[k].images) |->
                [superres_frames[k].images[j] EXCEPT
                    !.nominal = target_size,
                    !.copy = target_size,
                    !.hotspot = ScaleHotspot(@, target_size, superres_size),
                    !.scaled = <<target_size, superres_size>>]]]]

\* cursor files: frames holding no image, one image, two sizes, one size twice
FrameShapes == {<<>>, <<32>>, <<48>>, <<32, 48>>, <<48, 32>>, <<32, 32>>}

\* frames per cursor file
MaxFrames == 2

CursorFiles ==
    {[state |-> "missing", cursor_data |-> <<>>],
     [state |-> "unlistable", cursor_data |-> <<>>],
     [state |-> "corrupt", cursor_data |-> <<>>]}
    \cup {[state |-> "ok", cursor_data |-> c] :
             c \in UNION {[1..n -> FrameShapes] : n \in 0..MaxFrames}}

\* sizes the window offers (window.py 667-681), three of them
OfferedSizes == {32, 48, 64}

\* sizes requested in one run
MaxTargets == 2

\* the lists on_convert builds: non-empty, ascending
TargetLists ==
    {t \in UNION {[1..n -> OfferedSizes] : n \in 1..MaxTargets} :
        \A i \in 1..(Len(t) - 1) : t[i] < t[i + 1]}

\* the ratios of the upscaling network
SuperresFactors == {2, 4}

\* the input height the network is built for: 0 for any, else fixed
SuperresInputs == {0, 33}

(***************************************************************************)
(* A conversion run: window.py, Win2xcurGuiWindow._do_conversion_worker,   *)
(* with converter.py, create_symlinks and create_index_theme. The cursors  *)
(* directory is a map from file name to what is at that path.              *)
(***************************************************************************)

\* the mapping with the role "arrow" written under the name of an alias
WIN_TO_XCURSOR_ArrowAlias ==
    [arrow |-> "arrow", help |-> "help", appstarting |-> "progress",
     wait |-> "wait", crosshair |-> "crosshair", ibeam |-> "xterm",
     pen |-> "pencil", no |-> "circle", ns |-> "size_ver", we |-> "size_hor",
     nwse |-> "size_fdiag", nese |-> "size_bdiag", move |-> "fleur",
     uparrow |-> "uparrow", hand |-> "hand"]

\* constants.py, lines 25-42
WIN_TO_XCURSOR ==
    [arrow |-> "default", help |-> "help", appstarting |-> "progress",
     wait |-> "wait", crosshair |-> "crosshair", ibeam |-> "xterm",
     pen |-> "pencil", no |-> "circle", ns |-> "size_ver", we |-> "size_hor",
     nwse |-> "size_fdiag", nese |-> "size_bdiag", move |-> "fleur",
     uparrow |-> "uparrow", hand |-> "hand"]

\* constants.py, lines 45-108, in the order of the dict
SYMLINK_MAP ==
    << <<"default", <<"arrow", "left_ptr">> >>,
       <<"help", <<"5c6cd98b3f3ebcb1f9c7f1c204630408",
                   "d9ce0ab605698f320427677b458ad60b",
                   "question_arrow", "whats_this">> >>,
       <<"progress", <<"00000000000000020006000e7e9ffc3f",
                       "08e8e1c95fe2fc01f976f1e063a24ccd",
                       "3ecb610c1bf2410f44200f48c40d3599",
                       "half-busy", "left_ptr_watch">> >>,
       <<"wait", <<"watch">> >>,
       <<"crosshair", <<"cross">> >>,
       <<"xterm", <<"ibeam", "text">> >>,
       <<"circle", <<"03b6e0fcb3499374a867c041f52298f0">> >>,
       <<"size_ver", <<"00008160000006810000408080010102", "bottom_side",
                       "n-resize", "row-resize", "sb_v_double_arrow", "split_v",
                       "s-resize", "top_side", "ns-resize">> >>,
       <<"size_hor", <<"col-resize", "e-resize", "h_double_arrow", "left_side",
                       "right_side", "sb_h_double_arrow", "split_h", "w-resize",
                       "we-resize">> >>,
       <<"size_bdiag", <<"bottom_left_corner", "ll_angle", "sw-resize",
                         "top_right_corner", "ur_angle">> >>,
       <<"size_fdiag", <<"bottom_right_corner", "lr_angle", "se-resize",
                         "top_left_corner", "ul_angle", "nwse-resize">> >>,
       <<"fleur", <<"all-scroll", "size_all">> >>,
       <<"hand", <<"hand2", "pointer">> >>,
       <<"hand2", <<"closedhand">> >>,
       <<"top_right_corner", <<"ne-resize">> >>,
       <<"top_left_corner", <<"nw-resize">> >>,
       <<"pointer", <<"9d800788f1b08800ae810202380a0822",
                      "e29285e634086352946a0e7090d73106">> >> >>

\* the <<source, link_name>> pairs in the order create_symlinks visits them
RECURSIVE SymlinkPairsFrom(_)
SymlinkPairsFrom(i) ==
    IF i > Len(SYMLINK_MAP) THEN <<>>
    ELSE [j \in 1..Len(SYMLINK_MAP[i][2]) |-> <<SYMLINK_MAP[i][1], SYMLINK_MAP[i][2][j]>>]
         \o SymlinkPairsFrom(i + 1)

SymlinkPairs == SymlinkPairsFrom(1)

\* every name the run can touch in the cursors directory
CursorNames ==
    {WIN_TO_XCURSOR[w] : w \in DOMAIN WIN_TO_XCURSOR}
    \cup {SymlinkPairs[i][1] : i \in 1..Len(SymlinkPairs)}
    \cup {SymlinkPairs[i][2] : i \in 1..Len(SymlinkPairs)}

Absent == [kind |-> "absent", target |-> ""]

RegularFile == [kind |-> "file", target |-> ""]

Directory == [kind |-> "dir", target |-> ""]

SymlinkTo(target) == [kind |-> "symlink", target |-> target]

\* os.path.exists(path): follows symbolic links, False for a dangling one
RECURSIVE PathExists(_, _, _)
PathExists(fs, path, hops) ==
    IF path \notin DOMAIN fs \/ fs[path].kind = "absent" THEN FALSE
    ELSE IF fs[path].kind = "symlink"
    THEN hops > 0 /\ PathExists(fs, fs[path].target, hops - 1)
    ELSE TRUE

\* create_symlinks without lines 624-625: what is at the path stays
LinkStep_NoRemove(fs, writable, source, link_name) ==
    LET linked == writable /\ fs[link_name].kind = "absent"
    IN  [fs |-> IF linked THEN [fs EXCEPT ![link_name] = SymlinkTo(source)] ELSE fs,
         created |-> linked]

\* create_symlinks, lines 623-630, for one link: the directory afterwards and
\* whether the link was created; an exception of os.remove or os.symlink is
\* swallowed
LinkStep(fs, writable, source, link_name) ==
    LET exists    == PathExists(fs, link_name, 8)
        removed   == exists /\ writable /\ fs[link_name].kind # "dir"
        after     == IF removed THEN [fs EXCEPT ![link_name] = Absent] ELSE fs
        linked    == /\ exists => removed
                     /\ writable
                     /\ after[link_name].kind = "absent"
    IN  [fs |-> IF linked THEN [after EXCEPT ![link_name] = SymlinkTo(source)] ELSE after,
         created |-> linked]

\* create_symlinks, lines 620-630: the iterations lo..hi of the loop over
\* SYMLINK_MAP, run in order (the first half, then the second half on the
\* directory the first half left)
RECURSIVE LinkLoop(_, _, _, _)
LinkLoop(fs, writable, lo, hi) ==
    IF lo = hi
    THEN LET step == LinkStep(fs, writable, SymlinkPairs[lo][1], SymlinkPairs[lo][2])
         IN  [created |-> IF step.created THEN 1 ELSE 0,
              failed |-> IF step.created THEN {} ELSE {SymlinkPairs[lo][2]},
              fs |-> step.fs]
    ELSE LET mid   == (lo + hi) \div 2
             left  == LinkLoop(fs, writable, lo, mid)
             right == LinkLoop(left.fs, writable, mid + 1, hi)
         IN  [created |-> left.created + right.created,
              failed |-> left.failed \cup right.failed,
              fs |-> right.fs]

\* create_symlinks: the directory afterwards, the count it logs and returns,
\* and the links it could not create
CreateSymlinks(fs, writable) == LinkLoop(fs, writable, 1, Len(SymlinkPairs))

\* the cursors directory of a first run, with something already at the path
\* of the alias "arrow", or of the aliases "arrow" and "whats_this", and as
\* an earlier run without any cursor file left it (every link dangling)
EmptyDir == [n \in CursorNames |-> Absent]

CursorDirs ==
    {[EmptyDir EXCEPT !["arrow"] = k] :
        k \in {Absent, RegularFile, Directory, SymlinkTo("default"), SymlinkTo("left_ptr")}}
    \cup {[EmptyDir EXCEPT !["arrow"] = Directory, !["whats_this"] = Directory]}
    \cup {CreateSymlinks(EmptyDir, TRUE).fs}

\* cursor files of a theme: not in the directory, in a directory that cannot
\* be listed, without any image, with one 32 image
ThemeFiles ==
    {[state |-> "missing", cursor_data |-> <<>>],
     [state |-> "unlistable", cursor_data |-> <<>>],
     [state |-> "ok", cursor_data |-> <<<<>>>>],
     [state |-> "ok", cursor_data |-> <<<<32>>>>]}

\* roles mapped by the descriptor
MaxRoles == 2

\* inf_parser.cursor_files: the first k roles, each with a cursor file
ThemeMappings ==
    UNION {{[i \in 1..k |-> <<WIN_CURSOR_ORDER[i], f[i]>>] : f \in [1..k -> ThemeFiles]} :
              k \in 0..MaxRoles}

\* the size check boxes: none, one, two of them ticked
TickedSizes == {<<>>, <<32>>, <<32, 64>>}

(***************************************************************************)
(* State                                                                   *)
(***************************************************************************)

VARIABLES
    inf_file,      \* the descriptor file: encoding -> decoded text or DecodeError
    parser,        \* the INFParser objects: theme_name, cursor_files, ...
    first_parse,   \* per parser, <<theme_name, cursor_files>> after its first parse()
    args,          \* convert_cursor's arguments and the cursor file they name
    conv,          \* convert_cursor's position and local variables
    out,           \* what convert_cursor did: return value, log, encoder input, ...
    run,           \* the conversion worker: position, counters, log, cursors directory
    win,           \* the window: fields, widgets, log queue, idle callbacks, threads
    sr             \* the converter's upscaling model and its cached file

vars == <<inf_file, parser, first_parse, args, conv, out, run, win, sr>>

Parsers == {"p1", "p2"}

\* parse() calls per parser object
MaxParses == 2

\* INFParser.__init__
NewParser ==
    [theme_name |-> <<>>, cursor_files |-> <<>>, ret |-> FALSE, calls |-> 0,
     handed |-> None]

\* convert_cursor before its first statement
NewLocals ==
    [pc |-> "start", original_sizes |-> {}, base_frame_count |-> 0,
     merged_frames |-> <<>>, superres_frames |-> <<>>, superres_size |-> 0,
     size_idx |-> 0, decodes |-> 0]

NewOutcome ==
    [result |-> "running", log |-> <<>>, encoded |-> <<>>, written |-> FALSE,
     scale_calls |-> {}, filter_calls |-> {}, produced |-> <<>>]

\* no path: None
NoPath == << <<"<None>">> >>

\* the window after __init__ (window.py, lines 24-41, 281-328): no archive,
\* buttons insensitive, progress hidden, nothing logged, no worker
NoWindow ==
    [temp_dir |-> 0, dirs |-> {}, loads |-> 0, cursor_files |-> <<>>,
     inf_parser |-> 0, inf_dir |-> 0, output_dir |-> NoPath,
     install_dir |-> NoPath,
     button_box |-> TRUE, progress_clamp |-> FALSE,
     convert_btn |-> FALSE, preview_btn |-> FALSE, apply_btn |-> FALSE,
     idle |-> <<>>, workers |-> <<>>, handled |-> <<>>,
     enqueued |-> 0, log_queue |-> <<>>, log_view |-> <<>>, flushes |-> 0,
     logging |-> [main |-> "ready", worker |-> "ready"]]

\* the converter after __init__ (converter.py, lines 23-26), the cached
\* model file, and what the last call of _apply_superres_to_image did
NoLoader ==
    [model |-> "none", from |-> "none", file |-> "absent", sessions |-> 0,
     applies |-> 0,
     last |-> [checks |-> 0, stale |-> FALSE, fetched |-> FALSE,
               loaded |-> FALSE, inferred |-> FALSE]]

\* no worker has been started
NoRun ==
    [pc |-> "idle", cursor_files |-> <<>>, target_sizes |-> <<>>,
     add_shadow |-> FALSE, symlinks |-> FALSE, writable |-> TRUE,
     idx |-> 0, total |-> 0, converted |-> 0, attempted |-> <<>>,
     results |-> <<>>, log |-> <<>>, progress |-> <<>>, fs |-> EmptyDir,
     links |-> [called |-> FALSE, created |-> 0, failed |-> {}],
     manifest |-> "none", posted |-> "none"]

\* no conversion is under way
NoConversion ==
    /\ args = [cursor_file |-> [state |-> "missing", cursor_data |-> <<>>],
               target_sizes |-> <<>>, add_shadow |-> FALSE, use_superres |-> FALSE]
    /\ conv = [NewLocals EXCEPT !.pc = "idle"]
    /\ out = NewOutcome
    /\ run = NoRun
    /\ win = NoWindow
    /\ sr = NoLoader

InitParsers ==
    /\ parser = [p \in Parsers |-> NewParser]
    /\ first_parse = [p \in Parsers |-> None]
    /\ NoConversion

\* descriptors of every shape, as ASCII files
InitParse ==
    /\ inf_file \in {AsciiFile(t) : t \in Descriptors}
    /\ InitParsers

\* the text each encoding makes of the file's bytes when it decodes them: the
\* candidates read the same bytes differently
DecodedAs ==
    [e \in {Encodings[i] : i \in 1..Len(Encodings)} |->
        CASE e = "utf-8"  -> DI_SchemeReg \o Reg_MyTheme
          [] e = "gbk"    -> DI_SchemeReg \o Reg_Variables \o Str_Full
          [] e = "gb2312" -> DI_TwoSections \o Reg_Wreg \o Str_Full
          [] e = "utf-16" -> Reg_MyTheme
          [] OTHER        -> DI_SchemeReg \o Reg_Variables \o Str_EmptyName]

\* files that each encoding either decodes or fails to decode
InitDecode ==
    /\ inf_file \in {[e \in DOMAIN DecodedAs |-> IF e \in ok THEN DecodedAs[e] ELSE DecodeError] :
                        ok \in SUBSET DOMAIN DecodedAs}
    /\ InitParsers

\* descriptors whose scheme line carries each scheme list
InitMapping ==
    /\ inf_file \in {AsciiFile(ListDescriptor(l)) : l \in SchemeLists}
    /\ InitParsers

\* parser p runs parse()
Parse(p) ==
    /\ parser[p].calls < MaxParses
    /\ LET r == ParseCall(parser[p], inf_file)
       IN  /\ parser' = [parser EXCEPT ![p] =
                            [theme_name |-> r.theme_name, cursor_files |-> r.cursor_files,
                             ret |-> r.ret, calls |-> parser[p].calls + 1,
                             handed |-> r.handed]]
           /\ first_parse' = IF parser[p].calls = 0
                             THEN [first_parse EXCEPT ![p] = <<r.theme_name, r.cursor_files>>]
                             ELSE first_parse
    /\ UNCHANGED <<inf_file, args, conv, out, run, win, sr>>

ParseNext == \E p \in Parsers : Parse(p)

ParseSpec == InitParse /\ [][ParseNext]_vars

DecodeSpec == InitDecode /\ [][ParseNext]_vars

MappingSpec == InitMapping /\ [][ParseNext]_vars

(***************************************************************************)
(* convert_cursor, one action per stretch of the method                    *)
(***************************************************************************)

\* a call of convert_cursor on each cursor file, with each list of sizes
InitConvert ==
    /\ args \in [cursor_file : CursorFiles, target_sizes : TargetLists,
                  add_shadow : BOOLEAN, use_superres : BOOLEAN]
    /\ conv = NewLocals
    /\ out = NewOutcome
    /\ run = NoRun
    /\ win = NoWindow
    /\ sr = NoLoader
    /\ inf_file = AsciiFile(<<>>)
    /\ parser = [p \in Parsers |-> NewParser]
    /\ first_parse = [p \in Parsers |-> None]

\* return False after logging msg
Fail(msg) ==
    /\ conv' = [conv EXCEPT !.pc = "done"]
    /\ out' = [out EXCEPT !.result = "False", !.log = Append(@, LogEvent(msg, 0))]

\* after target size number conv.size_idx + 1: on to the next one or to line 584
AfterSize == IF conv.size_idx + 1 = Len(args.target_sizes) THEN "finish" ELSE "sizes"

\* lines 239-286: the imports, the file lookup, the first decode; the lookup
\* is outside the try block, so an error of os.listdir leaves the method as an
\* exception
ConvStart ==
    /\ conv.pc = "start"
    /\ \E imported \in BOOLEAN :
          IF ~imported
          THEN /\ conv' = [conv EXCEPT !.pc = "done"]
               /\ out' = [out EXCEPT !.result = "False",
                                     !.log = @ \o <<LogEvent("module_not_found", 0),
                                                    LogEvent("please_install", 0)>>]
          ELSE IF args.cursor_file.state = "unlistable"
          THEN /\ conv' = [conv EXCEPT !.pc = "done"]
               /\ out' = [out EXCEPT !.result = "Raised"]
          ELSE IF args.cursor_file.state = "missing" THEN Fail("file_not_found")
          ELSE IF args.cursor_file.state = "corrupt" THEN Fail("conversion_failed")
          ELSE LET cursor == OpenBlob(args.cursor_file.cursor_data, 1)
               IN  /\ conv' = [conv EXCEPT
                                  !.pc = IF args.use_superres THEN "superres" ELSE "sizes",
                                  !.original_sizes = OriginalSizes(cursor),
                                  !.base_frame_count = Len(cursor),
                                  !.merged_frames = <<>>,
                                  !.decodes = 1]
                   /\ out' = [out EXCEPT !.log = Append(@, LogEvent("original_sizes", 0))]
    /\ UNCHANGED <<inf_file, parser, first_parse, args, run, win, sr>>

\* lines 289-387: the super-resolved base frames
SuperResolve ==
    /\ conv.pc = "superres"
    /\ IF conv.original_sizes = {} THEN Fail("superres_no_sizes")
       ELSE LET cursor_data       == args.cursor_file.cursor_data
                max_original_size == Max(conv.original_sizes)
                usable            == FramesWithSize(cursor_data, max_original_size)
            IN  \E model \in SuperresFactors, input_hw \in SuperresInputs,
                   fallback \in SUBSET usable :
                    LET heights == [k \in 1..Len(cursor_data) |->
                                       SuperresHeight(max_original_size, model, input_hw,
                                                      k \in fallback)]
                        src_h   == max_original_size
                        sr_h    == heights[Least(usable)]
                        superres_size == Round(max_original_size * sr_h, src_h)
                    IN  /\ conv' = [conv EXCEPT
                                       !.pc = "superres_sizes",
                                       !.superres_size = superres_size,
                                       !.superres_frames =
                                           SuperresFrames(cursor_data, max_original_size,
                                                          superres_size, heights, sr_h, src_h,
                                                          conv.decodes),
                                       !.decodes = @ + conv.base_frame_count]
                        /\ out' = [out EXCEPT !.log = @ \o
                                      SuperresLog(cursor_data, max_original_size,
                                                  superres_size, 1, FALSE)]
    /\ UNCHANGED <<inf_file, parser, first_parse, args, run, win, sr>>

\* lines 390-460: one target size derived from the super-resolved base
ScaleFromSuperres ==
    /\ conv.pc = "superres_sizes"
    /\ LET target_size == args.target_sizes[conv.size_idx + 1]
           scaled      == FromSuperres(conv.superres_frames, target_size, conv.superres_size)
           size_frames == IF args.add_shadow THEN AddShadow(scaled) ELSE scaled
       IN  /\ conv' = [conv EXCEPT
                          !.pc = IF AfterSize = "finish" THEN "finish" ELSE "superres_sizes",
                          !.size_idx = @ + 1,
                          !.merged_frames =
                              MergeFrames(@, size_frames, conv.base_frame_count)]
           /\ out' = [out EXCEPT
                         !.log = Append(@, LogEvent("scaled_from_superres", target_size)),
                         !.filter_calls = @ \cup FilterCalls("resize", target_size, scaled)
                             \cup (IF args.add_shadow
                                   THEN FilterCalls("shadow", target_size, scaled)
                                   ELSE {}),
                         !.produced = Append(@, [target_size |-> target_size,
                                                 size_frames |-> size_frames])]
    /\ UNCHANGED <<inf_file, parser, first_parse, args, run, win, sr>>

\* lines 464-582: one target size without super-resolution
ProcessSize ==
    /\ conv.pc = "sizes"
    /\ LET target_size == args.target_sizes[conv.size_idx + 1]
           cursor_data == args.cursor_file.cursor_data
           cursor_temp == OpenBlob(cursor_data, conv.decodes + 1)
       IN  IF SizePresent(target_size, conv.original_sizes)
           THEN LET found       == ExistingSizeFrames(cursor_temp, target_size)
                    size_frames == IF args.add_shadow THEN AddShadow(found) ELSE found
                IN  /\ conv' = [conv EXCEPT
                                   !.pc = AfterSize,
                                   !.size_idx = @ + 1,
                                   !.decodes = @ + 1,
                                   !.merged_frames =
                                       MergeFrames(@, size_frames, conv.base_frame_count)]
                    /\ out' = [out EXCEPT
                                  !.log = Append(@, LogEvent("using_original", target_size)),
                                  !.filter_calls = @ \cup
                                      (IF args.add_shadow
                                       THEN FilterCalls("shadow", target_size, found)
                                       ELSE {}),
                                  !.produced = Append(@, [target_size |-> target_size,
                                                          size_frames |-> size_frames])]
           ELSE IF conv.original_sizes = {}
           THEN /\ conv' = [conv EXCEPT !.pc = AfterSize, !.size_idx = @ + 1,
                                        !.decodes = @ + 1]
                /\ out' = [out EXCEPT
                              !.log = Append(@, LogEvent("cannot_generate", target_size))]
           ELSE LET original_size == Max(conv.original_sizes)
                    scaled      == ScaledSizeFrames(cursor_data, target_size,
                                                    original_size, conv.decodes + 1)
                    size_frames == IF args.add_shadow THEN AddShadow(scaled) ELSE scaled
                    filtered    == FramesWithImages(cursor_data)
                IN  \E scale_raises \in BOOLEAN :
                        IF scale_raises
                        THEN /\ conv' = [conv EXCEPT !.pc = "done"]
                             /\ out' = [out EXCEPT
                                    !.result = "False",
                                    !.log = Append(@, LogEvent("conversion_failed", 0)),
                                    !.scale_calls = @ \cup {<<target_size, Least(filtered)>>},
                                    !.filter_calls = @ \cup
                                        FilterCalls("scale", target_size,
                                                    <<scaled[Least(filtered)]>>)]
                        ELSE /\ conv' = [conv EXCEPT
                                    !.pc = AfterSize,
                                    !.size_idx = @ + 1,
                                    !.decodes = @ + 1 + Len(cursor_data),
                                    !.merged_frames =
                                        MergeFrames(@, size_frames, conv.base_frame_count)]
                             /\ out' = [out EXCEPT
                                    !.log = Append(@, LogEvent("scaled", target_size)),
                                    !.scale_calls = @ \cup {<<target_size, k>> : k \in filtered},
                                    !.filter_calls = @ \cup
                                        FilterCalls("scale", target_size, scaled)
                                        \cup (IF args.add_shadow
                                              THEN FilterCalls("shadow", target_size, scaled)
                                              ELSE {}),
                                    !.produced = Append(@, [target_size |-> target_size,
                                                            size_frames |-> size_frames])]
    /\ UNCHANGED <<inf_file, parser, first_parse, args, run, win, sr>>

\* lines 584-608: the check for images, to_x11, the write, the return
Finish ==
    /\ conv.pc = "finish"
    /\ IF NoImages(conv.merged_frames) THEN Fail("failed_to_generate")
       ELSE \E encode_raises, write_raises \in BOOLEAN :
               /\ conv' = [conv EXCEPT !.pc = "done"]
               /\ out' = [out EXCEPT
                      !.encoded = <<conv.merged_frames>>,
                      !.written = ~encode_raises /\ ~write_raises,
                      !.result = IF encode_raises \/ write_raises THEN "False" ELSE "True",
                      !.log = Append(@, IF encode_raises \/ write_raises
                                        THEN LogEvent("conversion_failed", 0)
                                        ELSE LogEvent("generated", Len(conv.merged_frames)))]
    /\ UNCHANGED <<inf_file, parser, first_parse, args, run, win, sr>>

ConvertNext ==
    \/ ConvStart
    \/ SuperResolve
    \/ ScaleFromSuperres
    \/ ProcessSize
    \/ Finish

ConvertSpec == InitConvert /\ [][ConvertNext]_vars

(***************************************************************************)
(* The conversion worker: window.py, _do_conversion_worker.  It runs       *)
(* convert_cursor once per mapped role, then create_symlinks and            *)
(* create_index_theme; the window never passes use_superres.               *)
(***************************************************************************)

\* the worker about to start on a parsed theme with the switches as set
InitRun ==
    /\ \E cursor_files \in ThemeMappings, target_sizes \in TickedSizes,
          add_shadow \in BOOLEAN, symlinks \in BOOLEAN, fs \in CursorDirs :
          \* what the directory holds is read by create_symlinks only
          /\ ~symlinks => fs = EmptyDir
          /\ run = [NoRun EXCEPT !.pc = "start", !.cursor_files = cursor_files,
                                 !.target_sizes = target_sizes,
                                 !.add_shadow = add_shadow,
                                 !.symlinks = symlinks, !.fs = fs]
    /\ args = [cursor_file |-> [state |-> "missing", cursor_data |-> <<>>],
               target_sizes |-> <<32>>, add_shadow |-> FALSE, use_superres |-> FALSE]
    /\ conv = [NewLocals EXCEPT !.pc = "idle"]
    /\ out = NewOutcome
    /\ win = NoWindow
    /\ sr = NoLoader
    /\ inf_file = AsciiFile(<<>>)
    /\ parser = [p \in Parsers |-> NewParser]
    /\ first_parse = [p \in Parsers |-> None]

\* lines 748-752: the handler of any exception raised in the worker
WorkerFailed(r) ==
    [r EXCEPT !.pc = "ended", !.posted = "error",
              !.log = Append(@, LogEvent("error_during_conversion", 0))]

\* lines 665-692: the ticked sizes; none of them ends the run
WorkerStart ==
    /\ run.pc = "start"
    /\ run' = IF run.target_sizes = <<>>
              THEN [run EXCEPT !.pc = "ended", !.posted = "error",
                               !.log = Append(@, LogEvent("select_a_size", 0))]
              ELSE [run EXCEPT !.pc = "roles",
                               !.total = Len(run.cursor_files),
                               !.converted = 0,
                               !.log = Append(@, LogEvent("target_sizes", 0))]
    /\ UNCHANGED <<inf_file, parser, first_parse, args, conv, out, win, sr>>

\* lines 694-718: the next role of cursor_files up to the call of
\* convert_cursor; every role of WIN_CURSOR_ORDER has a name in WIN_TO_XCURSOR
BeginRole ==
    /\ run.pc = "roles"
    /\ run.idx < Len(run.cursor_files)
    /\ LET win_type == run.cursor_files[run.idx + 1][1]
           filename == run.cursor_files[run.idx + 1][2]
       IN  /\ run' = [run EXCEPT
                         !.pc = "converting",
                         !.attempted = Append(@, win_type),
                         !.progress = Append(@, <<run.converted + 1, run.total>>),
                         !.log = Append(@, LogEvent("converting", run.idx + 1))]
           /\ args' = [cursor_file |-> filename, target_sizes |-> run.target_sizes,
                       add_shadow |-> run.add_shadow, use_superres |-> FALSE]
           /\ conv' = NewLocals
           /\ out' = NewOutcome
    /\ UNCHANGED <<inf_file, parser, first_parse, win, sr>>

\* lines 711-725: convert_cursor has returned or raised
EndRole ==
    /\ run.pc = "converting"
    /\ conv.pc = "done"
    /\ LET win_type == run.cursor_files[run.idx + 1][1]
           success  == out.result = "True"
           logged   == [run EXCEPT !.log = @ \o out.log,
                                   !.results = Append(@, out.result)]
       IN  run' = IF out.result = "Raised" THEN WorkerFailed(logged)
                  ELSE [logged EXCEPT
                           !.pc = "roles",
                           !.idx = @ + 1,
                           !.converted = IF success THEN @ + 1 ELSE @,
                           !.progress = IF success
                                        THEN Append(@, <<run.converted + 1, run.total>>)
                                        ELSE @,
                           !.fs = IF out.written
                                  THEN [@ EXCEPT ![WIN_TO_XCURSOR[win_type]] = RegularFile]
                                  ELSE @]
    /\ conv' = [conv EXCEPT !.pc = "idle"]
    /\ UNCHANGED <<inf_file, parser, first_parse, args, out, win, sr>>

\* lines 727-746: the links when the switch is on, index.theme, the summary
FinishRun ==
    /\ run.pc = "roles"
    /\ run.idx = Len(run.cursor_files)
    /\ \E writable, index_written \in BOOLEAN :
          LET made == CreateSymlinks(run.fs, writable)
          IN  run' = [run EXCEPT
                  !.pc = "ended",
                  !.posted = "done",
                  !.writable = IF run.symlinks THEN writable ELSE @,
                  !.fs = IF run.symlinks THEN made.fs ELSE @,
                  !.links = IF run.symlinks
                            THEN [called |-> TRUE, created |-> made.created,
                                  failed |-> made.failed]
                            ELSE @,
                  !.manifest = IF index_written THEN "written" ELSE "failed",
                  !.progress = @ \o (IF run.symlinks
                                     THEN <<IF run.total = 0 THEN <<1, 1>>
                                            ELSE <<run.converted, run.total>>>>
                                     ELSE <<>>)
                                 \o <<<<1, 1>>>>,
                  !.log = @ \o (IF run.symlinks
                                THEN <<LogEvent("creating_links", 0),
                                       LogEvent("created_links", made.created)>>
                                ELSE <<>>)
                            \o <<IF index_written THEN LogEvent("created_index", 0)
                                 ELSE LogEvent("index_failed", 0),
                                 LogEvent("conversion_complete", run.converted),
                                 LogEvent("theme_location", 0),
                                 LogEvent("click_install", 0)>>]
    /\ UNCHANGED <<inf_file, parser, first_parse, args, conv, out, win, sr>>

RunNext ==
    \/ WorkerStart
    \/ BeginRole
    \/ ConvStart
    \/ ProcessSize
    \/ Finish
    \/ EndRole
    \/ FinishRun

RunSpec == InitRun /\ [][RunNext]_vars

(***************************************************************************)
(* The window: window.py, Win2xcurGuiWindow. The main loop runs one        *)
(* handler or one idle callback at a time; conversion workers are threads  *)
(* whose steps interleave with it. A path is the sequence of its           *)
(* components; a temporary directory is known by the number of the archive *)
(* extracted into it. The log calls of the handlers and of the worker are  *)
(* left to the machine of the log queue below.                             *)
(***************************************************************************)

\* get_theme_name_for_path with get_theme_name, lines 590-598
ThemeNameForPath(text) ==
    LET stripped == Strip(text)
        name     == IF stripped = <<>> THEN UntitledTheme ELSE stripped
        illegal  == {"/", "\\", ":", "*", "?", "\"", "<", ">", "|"}
        sub      == [i \in 1..Len(name) |-> IF name[i] \in illegal THEN "_" ELSE name[i]]
    IN  IF sub = <<>> THEN UntitledTheme ELSE sub

\* os.path.join(base, name) for a name without separator, as the file system
\* resolves it
JoinPath(base, name) ==
    IF name = <<".">> THEN base
    ELSE IF name = <<".", ".">>
    THEN IF base = <<>> THEN <<>> ELSE SubSeq(base, 1, Len(base) - 1)
    ELSE Append(base, name)

\* /tmp (line 626), the icons directory (lines 793-798), a directory picked
\* in the dialog (line 611)
Dirs ==
    [tmp    |-> << <<"t", "m", "p">> >>,
     icons  |-> << <<"d", "a", "t", "a">>, <<"i", "c", "o", "n", "s">> >>,
     picked |-> << <<"h", "o", "m", "e">>, <<"o", "u", "t">> >>]

\* what the theme name entry may hold when a handler reads it: the name of
\* the parsed descriptor (lowercased by the parser) or what the user typed
EntryTexts == {<<"t">>, <<".">>, <<".", ".", " ">>, <<"a", "/", " ">>}

\* archives chosen, conversions started, cursors of a parsed theme
MaxLoads == 2

MaxRuns == 2

ThemeCursors == 1

\* the Start Conversion button can be clicked whatever the button box shows
CanClickConvert_Sensitive == win.convert_btn

\* the Start Conversion button can be clicked: it is sensitive and its box,
\* hidden at line 632 and shown again by the completion handlers, is visible
CanClickConvert == win.button_box /\ win.convert_btn

InitWindow ==
    /\ win = NoWindow
    /\ sr = NoLoader
    /\ run = NoRun
    /\ NoConversion
    /\ inf_file = AsciiFile(<<>>)
    /\ parser = [p \in Parsers |-> NewParser]
    /\ first_parse = [p \in Parsers |-> None]

\* on_file_selected / on_file_dropped with parse_zip, lines 355-373, 396-411,
\* 471-582: the archive has a descriptor that parses, one that does not, or
\* none
SelectFile ==
    /\ win.loads < MaxLoads
    /\ \E outcome \in {"ok", "unparsable", "no_inf"} :
          /\ LET id      == win.loads + 1
                 cursors == IF outcome = "ok" THEN ThemeCursors ELSE 0
                 cleared == [win EXCEPT
                                !.output_dir = NoPath,
                                !.dirs = (@ \ {win.temp_dir}) \cup {id},
                                !.temp_dir = id,
                                !.loads = id,
                                !.cursor_files = Append(@, cursors)]
                 found   == [cleared EXCEPT !.inf_dir = id, !.inf_parser = id]
             IN  win' = CASE outcome = "no_inf" -> cleared
                          [] outcome = "unparsable" -> found
                          [] OTHER -> [found EXCEPT !.convert_btn = TRUE]
    /\ UNCHANGED <<inf_file, parser, first_parse, args, conv, out, run, sr>>

\* on_output_selected, lines 606-613
SelectOutput ==
    /\ win.output_dir # Dirs.picked
    /\ win' = [win EXCEPT !.output_dir = Dirs.picked]
    /\ UNCHANGED <<inf_file, parser, first_parse, args, conv, out, run, sr>>

\* on_convert, lines 618-656
OnConvert ==
    /\ CanClickConvert
    /\ Len(win.workers) < MaxRuns
    /\ win.inf_parser # 0
    /\ \E imported \in BOOLEAN, text \in EntryTexts :
          LET output_dir == IF win.output_dir = NoPath
                            THEN JoinPath(Dirs.tmp, ThemeNameForPath(text))
                            ELSE win.output_dir
              shown == [win EXCEPT !.output_dir = output_dir]
          IN  win' = IF imported
                     THEN [shown EXCEPT
                              !.button_box = FALSE,
                              !.progress_clamp = TRUE,
                              !.workers = Append(@,
                                  [pc |-> "start", output_dir |-> output_dir,
                                   loaded |-> win.inf_parser, theme |-> 0,
                                   total |-> 0, idx |-> 0, reads |-> <<>>,
                                   manifest |-> NoPath])]
                     ELSE [shown EXCEPT !.progress_clamp = FALSE,
                                        !.button_box = TRUE,
                                        !.convert_btn = TRUE]
    /\ UNCHANGED <<inf_file, parser, first_parse, args, conv, out, run, sr>>

\* a step of worker thread i in _do_conversion_worker. Lines 665-694: the
\* ticked sizes, then the mapping of the parser the window holds now. Lines
\* 694-725, one role: convert_cursor looks for the file of the mapping in the
\* directory the window holds now. Lines 727-752: the links, then index.theme
\* in the output directory the window holds now (os.path.join raises when it
\* is None), the summary and the completion handler
WorkerStep ==
    /\ \E i \in 1..Len(win.workers) :
          LET worker == win.workers[i]
          IN  CASE worker.pc = "start" ->
                     \E ticked \in BOOLEAN :
                        win' = IF ~ticked
                               THEN [win EXCEPT !.workers[i].pc = "unticked",
                                                !.idle = Append(@, "error")]
                               ELSE [win EXCEPT
                                        !.workers[i].pc = "roles",
                                        !.workers[i].theme = win.inf_parser,
                                        !.workers[i].total =
                                            win.cursor_files[win.inf_parser]]
                [] worker.pc = "roles" /\ worker.idx < worker.total ->
                     win' = [win EXCEPT
                                !.workers[i].idx = @ + 1,
                                !.workers[i].reads =
                                    Append(@, [theme |-> worker.theme,
                                               inf_dir |-> win.inf_dir,
                                               present |-> win.inf_dir \in win.dirs])]
                [] worker.pc = "roles" /\ worker.idx = worker.total ->
                     win' = IF win.output_dir = NoPath
                            THEN [win EXCEPT !.workers[i].pc = "failed",
                                             !.idle = Append(@, "error")]
                            ELSE [win EXCEPT !.workers[i].pc = "ended",
                                             !.workers[i].manifest = win.output_dir,
                                             !.idle = Append(@, "done")]
                [] OTHER -> FALSE
    /\ UNCHANGED <<inf_file, parser, first_parse, args, conv, out, run, sr>>

\* the completion handlers with _on_conversion_error leaving the Preview and
\* Install buttons as they are
MainIdle_ErrorKeepsButtons ==
    /\ win.idle # <<>>
    /\ LET callback == Head(win.idle)
           gone     == [pc |-> "gone", output_dir |-> NoPath, loaded |-> 0,
                        theme |-> 0, total |-> 0, idx |-> 0, reads |-> <<>>,
                        manifest |-> NoPath]
       IN  win' = [win EXCEPT !.idle = Tail(@),
                              !.workers[Len(win.handled) + 1] = gone,
                              !.progress_clamp = FALSE,
                              !.button_box = TRUE,
                              !.convert_btn = TRUE,
                              !.preview_btn = IF callback = "done" THEN TRUE ELSE @,
                              !.apply_btn = IF callback = "done" THEN TRUE ELSE @,
                              !.handled = Append(@, callback)]
    /\ UNCHANGED <<inf_file, parser, first_parse, args, conv, out, run, sr>>

\* the main loop runs the oldest idle callback: _on_conversion_done
\* (754-760) or _on_conversion_error (762-768); the thread that posted it is
\* not followed any further
MainIdle ==
    /\ win.idle # <<>>
    /\ LET callback == Head(win.idle)
           gone     == [pc |-> "gone", output_dir |-> NoPath, loaded |-> 0,
                        theme |-> 0, total |-> 0, idx |-> 0, reads |-> <<>>,
                        manifest |-> NoPath]
       IN  win' = [win EXCEPT !.idle = Tail(@),
                              !.workers[Len(win.handled) + 1] = gone,
                              !.progress_clamp = FALSE,
                              !.button_box = TRUE,
                              !.convert_btn = TRUE,
                              !.preview_btn = (callback = "done"),
                              !.apply_btn = (callback = "done"),
                              !.handled = Append(@, callback)]
    /\ UNCHANGED <<inf_file, parser, first_parse, args, conv, out, run, sr>>

\* on_install_theme, lines 782-818: the target is removed and replaced by a
\* copy of the output directory
OnInstallTheme ==
    /\ win.button_box /\ win.apply_btn
    /\ win.inf_parser # 0 /\ win.output_dir # NoPath
    /\ \E text \in EntryTexts :
          LET target_dir == JoinPath(Dirs.icons, ThemeNameForPath(text))
          IN  /\ win.install_dir # target_dir
              /\ win' = [win EXCEPT !.install_dir = target_dir]
    /\ UNCHANGED <<inf_file, parser, first_parse, args, conv, out, run, sr>>

WindowNext ==
    \/ SelectFile
    \/ SelectOutput
    \/ OnConvert
    \/ WorkerStep
    \/ MainIdle
    \/ OnInstallTheme

WindowSpec == InitWindow /\ [][WindowNext]_vars

\* the main loop keeps running and every thread keeps being scheduled
WindowLiveSpec == WindowSpec /\ WF_vars(MainIdle) /\ WF_vars(WorkerStep)

(***************************************************************************)
(* The log queue: window.py, Win2xcurGuiWindow.log and _flush_log_queue.   *)
(* log() is called by the handlers on the main thread and by the worker    *)
(* thread; a message is the number under which it was queued.              *)
(***************************************************************************)

\* messages logged
MaxMessages == 5

\* _flush_log_queue with the messages it took inserted last first
FlushLogQueue_Reversed(w) ==
    [w EXCEPT !.log_view = @ \o [i \in 1..Len(w.log_queue) |->
                                     w.log_queue[Len(w.log_queue) + 1 - i]],
              !.log_queue = <<>>]

\* _flush_log_queue, lines 337-353: everything queued goes to the mark at
\* the end of the log view, in queue order
FlushLogQueue(w) ==
    [w EXCEPT !.log_view = @ \o w.log_queue, !.log_queue = <<>>]

\* log(), line 334, on thread t: put_nowait
LogPut(t) ==
    /\ win.logging[t] = "ready"
    /\ win.enqueued < MaxMessages
    /\ win' = [win EXCEPT !.enqueued = @ + 1,
                          !.log_queue = Append(@, win.enqueued + 1),
                          !.logging[t] = "queued"]
    /\ UNCHANGED <<inf_file, parser, first_parse, args, conv, out, run, sr>>

\* log(), line 335, on thread t: GLib.idle_add(self._flush_log_queue)
LogIdleAdd(t) ==
    /\ win.logging[t] = "queued"
    /\ win' = [win EXCEPT !.flushes = @ + 1, !.logging[t] = "ready"]
    /\ UNCHANGED <<inf_file, parser, first_parse, args, conv, out, run, sr>>

\* the main loop, not inside a handler, runs a scheduled _flush_log_queue
FlushIdle ==
    /\ win.flushes > 0
    /\ win.logging["main"] = "ready"
    /\ win' = FlushLogQueue([win EXCEPT !.flushes = @ - 1])
    /\ UNCHANGED <<inf_file, parser, first_parse, args, conv, out, run, sr>>

LogNext ==
    \/ \E t \in {"main", "worker"} : LogPut(t)
    \/ \E t \in {"main", "worker"} : LogIdleAdd(t)
    \/ FlushIdle

LogSpec == InitWindow /\ [][LogNext]_vars

\* every thread goes on from put_nowait to idle_add, the main loop keeps
\* running
LogLiveSpec ==
    LogSpec /\ WF_vars(FlushIdle) /\ \A t \in {"main", "worker"} : WF_vars(LogIdleAdd(t))

(***************************************************************************)
(* The upscaling model: converter.py, _load_superres_model,                *)
(* _download_superres_model and the head of _apply_superres_to_image. The  *)
(* cached file is absent, good (its checksum is the expected one) or bad.  *)
(***************************************************************************)

\* calls of _apply_superres_to_image
MaxApplies == 4

\* _download_superres_model taking a cached file as it is
DownloadSuperresModel_Trusting(file, net, removable) ==
    IF file # "absent"
    THEN [ok |-> TRUE, file |-> file, checks |-> 0, stale |-> FALSE, fetched |-> FALSE]
    ELSE [ok |-> net = "good", file |-> IF net = "good" THEN "good" ELSE "absent",
          checks |-> 1, stale |-> FALSE, fetched |-> TRUE]

\* _download_superres_model, lines 80-135: the path is returned (ok) only
\* for a file that passed verify_sha256; net is what urlretrieve does: it
\* writes the good file, a bad one, or raises leaving nothing or a part
DownloadSuperresModel(file, net, removable) ==
    IF file = "good"
    THEN [ok |-> TRUE, file |-> "good", checks |-> 1, stale |-> FALSE, fetched |-> FALSE]
    ELSE LET stale == file = "bad"
             kept  == IF stale /\ ~removable THEN "bad" ELSE "absent"
             n     == IF stale THEN 1 ELSE 0
         IN  CASE net = "good" ->
                    [ok |-> TRUE, file |-> "good", checks |-> n + 1,
                     stale |-> stale, fetched |-> TRUE]
               [] net = "bad" ->
                    [ok |-> FALSE, file |-> IF removable THEN "absent" ELSE "bad",
                     checks |-> n + 1, stale |-> stale, fetched |-> TRUE]
               [] net = "part" ->
                    [ok |-> FALSE, file |-> "bad", checks |-> n,
                     stale |-> stale, fetched |-> TRUE]
               [] OTHER ->
                    [ok |-> FALSE, file |-> kept, checks |-> n,
                     stale |-> stale, fetched |-> TRUE]

\* _load_superres_model, lines 28-78, with the model not yet loaded
LoadSuperresModel(s, runtime, net, removable, session) ==
    IF ~runtime THEN [s EXCEPT !.last = NoLoader.last]
    ELSE LET got == DownloadSuperresModel(s.file, net, removable)
             ok  == got.ok /\ session
         IN  [s EXCEPT !.file = got.file,
                       !.model = IF ok THEN "loaded" ELSE @,
                       !.from = IF ok THEN got.file ELSE @,
                       !.sessions = IF ok THEN @ + 1 ELSE @,
                       !.last = [checks |-> got.checks, stale |-> got.stale,
                                 fetched |-> got.fetched, loaded |-> ok,
                                 inferred |-> FALSE]]

InitLoader ==
    /\ \E file \in {"absent", "good", "bad"} : sr = [NoLoader EXCEPT !.file = file]
    /\ win = NoWindow
    /\ run = NoRun
    /\ NoConversion
    /\ inf_file = AsciiFile(<<>>)
    /\ parser = [p \in Parsers |-> NewParser]
    /\ first_parse = [p \in Parsers |-> None]

\* _apply_superres_to_image, lines 147-149 and the inference after them:
\* the model is loaded when there is none, and the image goes through the
\* model unless loading failed
ApplySuperres ==
    /\ sr.applies < MaxApplies
    /\ \E runtime, removable, session \in BOOLEAN, net \in {"good", "bad", "part", "fail"} :
          LET s == IF sr.model = "none"
                   THEN LoadSuperresModel(sr, runtime, net, removable, session)
                   ELSE [sr EXCEPT !.last = NoLoader.last]
          IN  sr' = [s EXCEPT !.applies = @ + 1,
                              !.last.inferred = s.model = "loaded"]
    /\ UNCHANGED <<inf_file, parser, first_parse, args, conv, out, run, win>>

\* the cache directory is changed from outside between two calls
CacheChanges ==
    /\ \E file \in {"absent", "good", "bad"} :
          /\ file # sr.file
          /\ sr' = [sr EXCEPT !.file = file]
    /\ UNCHANGED <<inf_file, parser, first_parse, args, conv, out, run, win>>

LoaderNext ==
    \/ ApplySuperres
    \/ CacheChanges

LoaderSpec == InitLoader /\ [][LoaderNext]_vars

(***************************************************************************)
(* Properties of the descriptor parser                                     *)
(***************************************************************************)

\* what an entry of a scheme list resolves to: the Strings value of the
\* %variable% in its final path segment, or that segment when it names a
\* .cur/.ani file; None when it is empty, names an unknown variable or has
\* another extension
ResolvedEntry(entry, string_vars) ==
    LET segments == Split(Strip(entry), "\\")
        segment  == Strip(segments[Len(segments)])
        variable == VarSearch(segment, 1)
    IN  IF Contains(segment, <<"%">>)
        THEN IF variable # None /\ DictHas(string_vars, Lower(variable))
             THEN DictGet(string_vars, Lower(variable))
             ELSE None
        ELSE IF \/ EndsWith(Lower(segment), <<".","c","u","r">>)
                \/ EndsWith(Lower(segment), <<".","a","n","i">>)
        THEN segment
        ELSE None

\* the resolved entries of a scheme list, in list order
ResolvedEntries(scheme_reg, string_vars) ==
    LET parts == Split(scheme_reg, ",")
    IN  SelectSeq([i \in 1..Len(parts) |-> ResolvedEntry(parts[i], string_vars)],
                  LAMBDA v : v # None)

\* the entries of a scheme list that do not resolve
UnresolvedCount(scheme_reg, string_vars) ==
    LET parts == Split(scheme_reg, ",")
    IN  Cardinality({i \in 1..Len(parts) : ResolvedEntry(parts[i], string_vars) = None})

C5_ParseIdempotent ==
    \A p \in Parsers :
        parser[p].calls >= 1 =>
            /\ <<parser[p].theme_name, parser[p].cursor_files>> = first_parse[p]
            /\ \A q \in Parsers :
                  parser[q].calls >= 1 =>
                      /\ parser[q].theme_name = parser[p].theme_name
                      /\ parser[q].cursor_files = parser[p].cursor_files

\* one parser has parsed twice, the other once, and roles were mapped
C5_Witness ==
    /\ parser["p1"].calls = 2
    /\ parser["p2"].calls = 1
    /\ Len(parser["p1"].cursor_files) >= 2
    /\ parser["p1"].ret

\* the descriptors of the scenario: AddReg names Scheme.Reg, and [Scheme.Reg]
\* holds HKCU,"Control Panel\Cursors\Schemes","My Theme","arrow.cur,,,wait.cur"
ScenarioDescriptors ==
    {a \o Reg_MyTheme \o c : a \in {DI_SchemeReg, DI_TwoSections}, c \in StringsBlocks}

\* C6: the scenario descriptor parses to theme_name = "My Theme" and the role
\* mapping {arrow (role 0): "arrow.cur", wait (role 3): "wait.cur"}.
C6_SchemeLineScenario ==
    \A p \in Parsers :
        (parser[p].calls >= 1 /\ ReadContent(inf_file) \in ScenarioDescriptors) =>
            /\ parser[p].theme_name = <<"M","y"," ","T","h","e","m","e">>
            /\ {parser[p].cursor_files[i] : i \in 1..Len(parser[p].cursor_files)} =
                  {<<WIN_CURSOR_ORDER[1], <<"a","r","r","o","w",".","c","u","r">> >>,
                   <<WIN_CURSOR_ORDER[4], <<"w","a","i","t",".","c","u","r">> >>}

\* C9: parse() uses the text of the first of utf-8, gbk, gb2312, utf-16, latin1
\* that decodes the file; when none does it returns False and maps no role.
C9_EncodingFallback ==
    \A p \in Parsers :
        parser[p].calls >= 1 =>
            LET order == <<"utf-8", "gbk", "gb2312", "utf-16", "latin1">>
                ok    == {i \in 1..5 : inf_file[order[i]] # DecodeError}
            IN  IF ok = {}
                THEN /\ ~parser[p].ret
                     /\ parser[p].cursor_files = <<>>
                ELSE LET r == Analyze(NewParser, inf_file[order[Least(ok)]])
                     IN  /\ parser[p].ret
                         /\ parser[p].theme_name = r.theme_name
                         /\ parser[p].cursor_files = r.cursor_files

\* utf-8 and gbk fail, gb2312 and latin1 decode, and the gb2312 text was parsed
C9_Witness ==
    \E p \in Parsers :
        /\ parser[p].calls >= 1
        /\ inf_file["utf-8"] = DecodeError
        /\ inf_file["gbk"] = DecodeError
        /\ inf_file["gb2312"] # DecodeError
        /\ inf_file["latin1"] # DecodeError
        /\ parser[p].ret
        /\ parser[p].theme_name = UntitledTheme
        /\ Len(parser[p].cursor_files) = 1

\* the descriptors that lack the DefaultInstall section, its AddReg directive,
\* every AddReg-referenced section, or a qualifying HKCU scheme line
SchemelessDescriptors ==
    {a \o b \o c : a \in {<<>>, DI_NoAddReg}, b \in RegBlocks, c \in StringsBlocks}
    \cup {a \o b \o c : a \in DefaultInstallBlocks, b \in {<<>>, Reg_NoSchemeLine},
                        c \in StringsBlocks}

\* C10: a descriptor that decodes but lacks the DefaultInstall section, the
\* AddReg directive, the referenced sections or a qualifying scheme line still
\* parses with success, the placeholder theme name and an empty role mapping.
C10_MissingSchemeDefaults ==
    \A p \in Parsers :
        (parser[p].calls >= 1 /\ ReadContent(inf_file) \in SchemelessDescriptors) =>
            /\ parser[p].ret
            /\ parser[p].theme_name = UntitledTheme
            /\ parser[p].cursor_files = <<>>

\* a descriptor with AddReg = Scheme.Reg, a [Scheme.Reg] without a scheme line
\* and a [Strings] section has been parsed
C10_Witness ==
    \E p \in Parsers :
        /\ parser[p].calls >= 1
        /\ ReadContent(inf_file) = DI_SchemeReg \o Reg_NoSchemeLine \o Str_Full
        /\ parser[p].ret
        /\ parser[p].theme_name = UntitledTheme

\* C18: the theme name of a descriptor that parsed is never the empty text:
\* it is the scheme line's second token, the [Strings] value of its
\* %variable%, or the placeholder.
C18_ThemeNameNeverEmpty ==
    \A p \in Parsers :
        (parser[p].calls >= 1 /\ parser[p].ret) => parser[p].theme_name # <<>>

\* descriptors whose first qualifying scheme line has one quoted token, in
\* the only section of the AddReg directive or in the first of two, and whose
\* next qualifying line names T2 and b.cur
ShortLineDescriptors ==
    {a \o Reg_WregShort \o c : a \in {DI_SchemeReg, DI_TwoSections}, c \in StringsBlocks}

\* C19: a qualifying scheme line with fewer than two quoted tokens is passed
\* over: the scan goes on with the lines after it and with the remaining
\* sections of the AddReg directive, and the first later line with two
\* quoted tokens gives the theme name and the cursor list.
C19_ShortSchemeLineSkipped ==
    \A p \in Parsers :
        parser[p].calls >= 1 =>
            /\ ReadContent(inf_file) \in ShortLineDescriptors =>
                   /\ parser[p].ret
                   /\ parser[p].theme_name = <<"t", "2">>
                   /\ parser[p].cursor_files = << <<"arrow", <<"b", ".", "c", "u", "r">> >> >>
            /\ ReadContent(inf_file) = DI_SchemeReg \o Reg_Variables \o Str_Full =>
                   /\ parser[p].ret
                   /\ parser[p].theme_name = <<"m", "y", " ", "t", "h", "e", "m", "e">>
                   /\ Len(parser[p].cursor_files) = 2

\* the short line sat in [Wreg], the first of two sections of the directive
C19_Witness ==
    \E p \in Parsers :
        /\ parser[p].calls >= 1
        /\ \E c \in StringsBlocks :
              ReadContent(inf_file) = DI_TwoSections \o Reg_WregShort \o c
        /\ parser[p].theme_name = <<"t", "2">>

(***************************************************************************)
(* Properties of convert_cursor                                            *)
(***************************************************************************)

\* the positions <<i, j>> of the images of a frame list that satisfy Keep
Positions(frames, Keep(_)) ==
    UNION {{<<i, j>> : j \in {j \in 1..Len(frames[i].images) : Keep(frames[i].images[j])}} :
              i \in 1..Len(frames)}

\* the images held by a frame list
ImagesOf(frames) ==
    {frames[p[1]].images[p[2]] : p \in Positions(frames, LAMBDA img : TRUE)}

\* the nominal size the file gives the image a decoded image came from
SourceNominal(img) == args.cursor_file.cursor_data[img.frame][img.slot]

\* the target sizes processed so far
ProcessedSizes == {args.target_sizes[i] : i \in 1..conv.size_idx}

\* C2: whenever convert_cursor reaches the encode step, the merged frame list
\* handed to the encoder has exactly as many frames as the source cursor.
C2_FrameCountAtEncode ==
    \A e \in 1..Len(out.encoded) :
        Len(out.encoded[e]) = Len(args.cursor_file.cursor_data)

\* how many images the n-th produced size made from source frame k
ProducedFor(n, k) ==
    Cardinality(Positions(out.produced[n].size_frames, LAMBDA img : img.frame = k))

\* what all produced sizes together made from source frame k
ProducedTotal(k) ==
    IF Len(out.produced) = 0 THEN 0
    ELSE IF Len(out.produced) = 1 THEN ProducedFor(1, k)
    ELSE ProducedFor(1, k) + ProducedFor(2, k)

\* C3: without upscaling, after two target sizes have been processed, merged
\* frame k holds as many images as the first size produced for source frame k
\* plus as many as the second did, and every frame a size produced images for
\* is among the merged frames: nothing is lost, doubled or moved to another
\* frame.
C3_MonotonicAccumulation ==
    (~args.use_superres /\ Len(args.target_sizes) = 2 /\ conv.size_idx = 2) =>
        \A k \in 1..Len(args.cursor_file.cursor_data) :
            IF k <= Len(conv.merged_frames)
            THEN Len(conv.merged_frames[k].images) = ProducedTotal(k)
            ELSE ProducedTotal(k) = 0

\* C4, as claimed: for a processed target size that is a nominal size of the
\* source, the scale filter was never invoked and every merged image of that
\* size is a source image of that size with its pixels untouched.
C4_PresentSizeUntouched ==
    \A s \in ProcessedSizes \cap conv.original_sizes :
        /\ \A c \in out.scale_calls : c[1] # s
        /\ \A img \in ImagesOf(conv.merged_frames) :
              img.nominal = s =>
                  /\ SourceNominal(img) = s
                  /\ img.scaled = <<>>
                  /\ img.superres = 0
                  /\ ~img.shadow

\* C4, amended: without upscaling, for a processed target size that is a nominal
\* size of the source, the scale filter was never invoked and every merged
\* image of that size is a source image of that size, neither scaled nor
\* super-resolved, and touched by the shadow filter exactly when add_shadow is
\* set.
C4_PresentSizeOnlyShadowed ==
    ~args.use_superres =>
        \A s \in ProcessedSizes \cap conv.original_sizes :
            /\ \A c \in out.scale_calls : c[1] # s
            /\ \A img \in ImagesOf(conv.merged_frames) :
                  img.nominal = s =>
                      /\ SourceNominal(img) = s
                      /\ img.scaled = <<>>
                      /\ img.superres = 0
                      /\ img.shadow = args.add_shadow

\* a run without upscaling and with the shadow has written a cursor that holds
\* source images of a present size next to images scaled to an absent one
C4_Witness ==
    /\ ~args.use_superres
    /\ args.add_shadow
    /\ out.result = "True"
    /\ \E s \in ProcessedSizes \cap conv.original_sizes :
          \E img \in ImagesOf(conv.merged_frames) :
              img.nominal = s /\ img.shadow /\ SourceNominal(img) = s
    /\ \E img \in ImagesOf(conv.merged_frames) : img.scaled # <<>>

\* C7: without upscaling, a source whose only nominal size is 32 and the target
\* sizes [32, 64] give as many merged frames as the source has frames, each
\* holding exactly two images: the frame's 32 image unscaled, then a 64 image
\* scaled from the frame's 32 image.
C7_Only32To32And64 ==
    (/\ ~args.use_superres
     /\ conv.original_sizes = {32}
     /\ Len(args.target_sizes) = 2
     /\ args.target_sizes[1] = 32
     /\ args.target_sizes[2] = 64
     /\ conv.size_idx = 2) =>
        /\ Len(conv.merged_frames) = Len(args.cursor_file.cursor_data)
        /\ \A k \in 1..Len(conv.merged_frames) :
              LET images == conv.merged_frames[k].images
              IN  /\ Len(images) = 2
                  /\ images[1].nominal = 32
                  /\ images[1].frame = k
                  /\ images[1].scaled = <<>>
                  /\ SourceNominal(images[1]) = 32
                  /\ images[2].nominal = 64
                  /\ images[2].frame = k
                  /\ images[2].scaled = <<64, 32>>
                  /\ SourceNominal(images[2]) = 32

\* C8: when every target size has been processed and no merged frame holds an
\* image, convert_cursor returns False, the failure is in the log, and nothing
\* was encoded or written; and it returns True only after writing the output.
C8_NoImagesNoOutput ==
    /\ (/\ conv.pc = "done"
        /\ conv.size_idx = Len(args.target_sizes)
        /\ \A k \in 1..Len(conv.merged_frames) :
              Len(conv.merged_frames[k].images) = 0) =>
           /\ out.result = "False"
           /\ \E i \in 1..Len(out.log) : out.log[i].msg = "failed_to_generate"
           /\ Len(out.encoded) = 0
           /\ ~out.written
    /\ out.result = "True" => out.written /\ Len(out.encoded) = 1

\* a cursor of two frames without images went through both target sizes and
\* the call returned False
C8_Witness ==
    /\ conv.pc = "done"
    /\ Len(args.cursor_file.cursor_data) = 2
    /\ conv.size_idx = 2
    /\ Len(conv.merged_frames) = 0
    /\ out.result = "False"
    /\ out.log[Len(out.log)].msg = "failed_to_generate"

\* the frames of the super-resolved base, once it has been made
BaseMade == args.use_superres /\ Len(conv.superres_frames) > 0

\* C13: with upscaling, the factor is the height of the first super-resolved
\* output over the height of its input; the base nominal size is the largest
\* source size times that factor, rounded; the hot spot of every base image
\* is the source hot spot times that factor, and the hot spot of every
\* derived image the base hot spot times target size over base size, each
\* truncated; the default factor 4 plays no part.
C13_MeasuredFactor ==
    BaseMade =>
        LET src_h == Max(conv.original_sizes)
            sr_h  == conv.superres_frames[1].images[1].superres
            base(img) == LET h == Hotspot(src_h, img.frame, img.slot)
                         IN  <<(h[1] * sr_h) \div src_h, (h[2] * sr_h) \div src_h>>
        IN  /\ conv.superres_size = Round(src_h * sr_h, src_h)
            /\ \A img \in ImagesOf(conv.superres_frames) :
                   /\ img.nominal = conv.superres_size
                   /\ img.hotspot = base(img)
            /\ \A n \in 1..Len(out.produced) :
                   \A img \in ImagesOf(out.produced[n].size_frames) :
                      img.hotspot =
                          <<(base(img)[1] * out.produced[n].target_size)
                                \div conv.superres_size,
                            (base(img)[2] * out.produced[n].target_size)
                                \div conv.superres_size>>

\* a 32-pixel source measured at 132 / 32 = 4.125, and a size derived from it
C13_Witness ==
    /\ BaseMade
    /\ Max(conv.original_sizes) = 32
    /\ conv.superres_frames[1].images[1].superres = 132
    /\ conv.superres_size = 132
    /\ out.result = "True"
    /\ \E img \in ImagesOf(conv.merged_frames) : img.hotspot[1] > 0

\* s is an initial part of t
IsPrefix(s, t) == Len(s) <= Len(t) /\ SubSeq(t, 1, Len(s)) = s

\* C14: once a size has set up the merged frame list, no later size changes
\* the number of its frames, their source frames or their delays; a later
\* size only appends images to the frames.
C14_FrameCountFixed ==
    [][Len(conv.merged_frames) > 0 =>
          /\ Len(conv'.merged_frames) = Len(conv.merged_frames)
          /\ \A idx \in 1..Len(conv.merged_frames) :
                 /\ conv'.merged_frames[idx].src = conv.merged_frames[idx].src
                 /\ conv'.merged_frames[idx].delay = conv.merged_frames[idx].delay
                 /\ IsPrefix(conv.merged_frames[idx].images,
                             conv'.merged_frames[idx].images)]_vars

\* a second size merged into a list of one frame though it has two frames
C14_Witness ==
    /\ Len(out.produced) = 2
    /\ Len(out.produced[1].size_frames) = 1
    /\ Len(out.produced[2].size_frames) = 2
    /\ Len(conv.merged_frames) = 1
    /\ Len(conv.merged_frames[1].images) = 2

\* C15: without upscaling, every image in merged frame i comes from source
\* frame i and merged frame i has the delay of source frame i: a frame that
\* lacks a target size present elsewhere adds nothing and moves no later
\* frame.
C15_FrameAlignment ==
    ~args.use_superres =>
        \A idx \in 1..Len(conv.merged_frames) :
            /\ conv.merged_frames[idx].src = idx
            /\ conv.merged_frames[idx].delay =
                   OpenBlob(args.cursor_file.cursor_data, 0)[idx].delay
            /\ \A j \in 1..Len(conv.merged_frames[idx].images) :
                   conv.merged_frames[idx].images[j].frame = idx

\* C16: an image object handed to the scale, resize or shadow filter for one
\* target size and frame is handed to no filter call for another target size
\* or another frame: each target size has its own decode (or its own clones
\* of the super-resolved base), each scaled frame its own decode.
C16_DecodeIsolation ==
    \A c1 \in out.filter_calls, c2 \in out.filter_calls :
        c1.obj = c2.obj => (c1.size = c2.size /\ c1.frame = c2.frame)

\* two sizes went through the filters, one of them scaled for two frames
C16_Witness ==
    /\ out.result = "True"
    /\ \E c1 \in out.filter_calls, c2 \in out.filter_calls : c1.size # c2.size
    /\ \E c1 \in out.filter_calls, c2 \in out.filter_calls :
          c1.filter = "scale" /\ c2.filter = "scale" /\ c1.size = c2.size
          /\ c1.frame # c2.frame

\* the entries of out.produced made by scaling, for a size the source lacks
ScaledEntries ==
    {n \in 1..Len(out.produced) :
        ~args.use_superres /\ out.produced[n].target_size \notin conv.original_sizes}

\* C17: without upscaling, the frames made for a target size the source lacks
\* are one per source frame, in order; a source frame without image gives an
\* empty frame; any other gives exactly one image, taken from the frame's
\* first image of the largest size of the file or, failing that, of the
\* largest size of the frame, scaled by target size over largest size of the
\* file and given the target size as nominal size.
C17_ScaledFromLargest ==
    \A n \in ScaledEntries :
        LET cursor_data == args.cursor_file.cursor_data
            target_size == out.produced[n].target_size
            size_frames == out.produced[n].size_frames
            largest     == Max(conv.original_sizes)
        IN  /\ Len(size_frames) = Len(cursor_data)
            /\ \A k \in 1..Len(cursor_data) :
                   LET sizes  == {cursor_data[k][j] : j \in 1..Len(cursor_data[k])}
                       images == size_frames[k].images
                   IN  /\ size_frames[k].src = k
                       /\ size_frames[k].delay = k
                       /\ sizes = {} => images = <<>>
                       /\ sizes # {} =>
                              LET from == IF largest \in sizes THEN largest ELSE Max(sizes)
                              IN  /\ Len(images) = 1
                                  /\ images[1].frame = k
                                  /\ cursor_data[k][images[1].slot] = from
                                  /\ \A j \in 1..(images[1].slot - 1) :
                                         cursor_data[k][j] # from
                                  /\ images[1].scaled = <<target_size, largest>>
                                  /\ images[1].nominal = target_size

\* a size scaled for a frame whose second image is its largest, next to a
\* frame that lacks the largest size of the file
C17_Witness ==
    /\ out.result = "True"
    /\ \E n \in ScaledEntries :
          /\ \E img \in ImagesOf(out.produced[n].size_frames) : img.slot = 2
          /\ \E img \in ImagesOf(out.produced[n].size_frames) :
                 SourceNominal(img) # Max(conv.original_sizes)

\* C20: with upscaling, a frame without an image of the largest source size
\* is skipped with a log event and the call goes on; it gives no image to the
\* base or to a derived size, and every remaining frame keeps its images and
\* its delay at its own source frame position.
C20_UpscaleSkipKeepsPositions ==
    (args.use_superres /\ conv.pc \in {"superres_sizes", "finish", "done"}
     /\ conv.original_sizes # {}) =>
        LET cursor_data == args.cursor_file.cursor_data
            lacking == (1..Len(cursor_data))
                          \ FramesWithSize(cursor_data, Max(conv.original_sizes))
        IN  /\ \A k \in lacking :
                   /\ \E n \in 1..Len(out.log) :
                          out.log[n] = LogEvent("skipping_frame", k - 1)
                   /\ \A img \in ImagesOf(conv.superres_frames)
                                   \cup ImagesOf(conv.merged_frames) : img.frame # k
            /\ \A idx \in 1..Len(conv.merged_frames) :
                   /\ conv.merged_frames[idx].src = idx
                   /\ conv.merged_frames[idx].delay = OpenBlob(cursor_data, 0)[idx].delay
                   /\ \A j \in 1..Len(conv.merged_frames[idx].images) :
                          conv.merged_frames[idx].images[j].frame = idx

(***************************************************************************)
(* Properties of the conversion worker                                    *)
(***************************************************************************)

\* the roles of a mapping, in mapping order
RolesOf(cursor_files) == [i \in 1..Len(cursor_files) |-> cursor_files[i][1]]

\* the number of calls of convert_cursor that returned True
Successes(results) == Cardinality({i \in 1..Len(results) : results[i] = "True"})

\* C11: a run with a target size ticked and the link switch on ends with every
\* mapped role attempted exactly once in mapping order, whatever failed
\* before, then with the links and index.theme made, and it reports as
\* converted the number of roles whose convert_cursor returned True, a number
\* from 0 to the number of roles.
C11_EveryRoleAttempted ==
    (run.pc = "ended" /\ run.target_sizes # <<>> /\ run.symlinks) =>
        /\ run.attempted = RolesOf(run.cursor_files)
        /\ run.links.called
        /\ run.manifest # "none"
        /\ run.converted = Successes(run.results)
        /\ 0 <= run.converted /\ run.converted <= run.total

\* the positions of a log holding an event with one of the messages
EventsOf(log, messages) == {i \in 1..Len(log) : log[i].msg \in messages}

\* what convert_cursor and the worker log when a conversion does not succeed
FailureMessages ==
    {"module_not_found", "file_not_found", "conversion_failed", "failed_to_generate",
     "error_during_conversion"}

\* C12: every skip of a run is in its log: the log of a finished run holds at
\* least one failure event for each role whose conversion did not succeed, and
\* at least one event of create_symlinks for each link it could not create.
C12_EverySkipLogged ==
    run.pc = "ended" =>
        /\ Cardinality(EventsOf(run.log, FailureMessages))
               >= Len(run.results) - Successes(run.results)
        /\ Cardinality(EventsOf(run.log, {"created_links"}))
               >= Cardinality(run.links.failed)

\* what create_symlinks may find at an alias path according to C21: nothing,
\* a regular file, a symbolic link to something that exists, or a dangling
\* link to the alias's own source, as an earlier run leaves it
ListedBefore(fs, source, link_name) ==
    \/ fs[link_name].kind \in {"absent", "file"}
    \/ /\ fs[link_name].kind = "symlink"
       /\ PathExists(fs, link_name, 8) \/ fs[link_name].target = source

\* C21: when create_symlinks runs on a directory that takes new entries and
\* every alias path holds nothing, a regular file, a valid link or a dangling
\* link of an earlier run, afterwards every alias is a symbolic link to its
\* source, and the count returned and logged is the number of links the call
\* itself created: the aliases not counted are those it found already there.
C21_AliasesLinked ==
    [][(run.pc = "roles" /\ run'.pc = "ended" /\ run'.links.called /\ run'.writable
        /\ \A i \in 1..Len(SymlinkPairs) :
               ListedBefore(run.fs, SymlinkPairs[i][1], SymlinkPairs[i][2]))
       => /\ \A i \in 1..Len(SymlinkPairs) :
                 run'.fs[SymlinkPairs[i][2]] = SymlinkTo(SymlinkPairs[i][1])
          /\ run'.links.created
                 = Len(SymlinkPairs) - Cardinality(run'.links.failed)
          /\ \A a \in run'.links.failed : run'.fs[a] = run.fs[a]
          /\ \A a \in CursorNames \ run'.links.failed :
                 run.fs[a].kind = "symlink" /\ run'.fs[a] = run.fs[a]
                    => PathExists(run.fs, a, 8)
          /\ \E n \in 1..Len(run'.log) :
                 run'.log[n] = LogEvent("created_links", run'.links.created)]_vars

\* a run into the directory of an earlier run has ended: the links to the
\* cursor written by this run were replaced, the dangling ones were found in
\* place, and every alias is a link to its source
C21_Witness ==
    /\ run.pc = "ended" /\ run.links.called /\ run.writable
    /\ run.links.failed # {} /\ "arrow" \notin run.links.failed
    /\ run.links.created > 0
    /\ \A i \in 1..Len(SymlinkPairs) :
           run.fs[SymlinkPairs[i][2]] = SymlinkTo(SymlinkPairs[i][1])

\* the names convert_cursor writes cursor files under
TargetNames == {WIN_TO_XCURSOR[w] : w \in DOMAIN WIN_TO_XCURSOR}

\* the names create_symlinks makes links under
AliasNames == {SymlinkPairs[i][2] : i \in 1..Len(SymlinkPairs)}

\* C30: no alias of SYMLINK_MAP is the name of a cursor file, every alias is
\* listed once, the 15 roles have 15 different file names, and so a run that
\* ends with the links made still has, as a regular file, the cursor of
\* every role whose conversion succeeded.
C30_SingleWriter ==
    /\ AliasNames \cap TargetNames = {}
    /\ Cardinality(AliasNames) = Len(SymlinkPairs)
    /\ Cardinality(DOMAIN WIN_TO_XCURSOR) = Len(WIN_CURSOR_ORDER)
    /\ Cardinality(TargetNames) = Len(WIN_CURSOR_ORDER)
    /\ (run.pc = "ended" /\ run.links.called) =>
           \A i \in 1..Len(run.results) :
              run.results[i] = "True"
                 => run.fs[WIN_TO_XCURSOR[run.attempted[i]]] = RegularFile

\* a run wrote a cursor file and then made all the links of the map
C30_Witness ==
    /\ run.pc = "ended" /\ run.links.called
    /\ run.links.created = Len(SymlinkPairs)
    /\ \E i \in 1..Len(run.results) :
           /\ run.results[i] = "True"
           /\ run.fs[WIN_TO_XCURSOR[run.attempted[i]]] = RegularFile

\* C23: the progress fractions of a run, in the order they are handed to the
\* main loop, never decrease and lie between 0 and 1 (a fraction is kept as
\* <<numerator, denominator>>).
C23_ProgressMonotone ==
    /\ \A i \in 1..Len(run.progress) :
           /\ run.progress[i][2] > 0
           /\ 0 <= run.progress[i][1]
           /\ run.progress[i][1] <= run.progress[i][2]
    /\ \A i \in 1..(Len(run.progress) - 1) :
           run.progress[i][1] * run.progress[i + 1][2]
              <= run.progress[i + 1][1] * run.progress[i][2]

(***************************************************************************)
(* Properties of the window                                                *)
(***************************************************************************)

\* the worker threads that have not yet left _do_conversion_worker
Running == {i \in 1..Len(win.workers) : win.workers[i].pc \in {"start", "roles"}}

\* C24: at most one conversion worker runs at any time, and a further worker
\* is started only after the completion handler of every earlier one has run.
C24_SingleWorker ==
    /\ Cardinality(Running) <= 1
    /\ Len(win.workers) <= Len(win.handled) + 1

\* a second worker is converting after the first one's handler has run
C24_Witness ==
    /\ Len(win.workers) = 2
    /\ Len(win.handled) = 1
    /\ win.workers[2].pc = "roles"

\* C26: every cursor a worker converts is a file of the theme that was loaded
\* when its run was started, read from that theme's directory, which is
\* still there.
C26_WorkerKeepsItsTheme ==
    \A i \in 1..Len(win.workers) :
       /\ win.workers[i].pc \in {"roles", "ended", "failed"}
             => win.workers[i].theme = win.workers[i].loaded
       /\ \A n \in 1..Len(win.workers[i].reads) :
             /\ win.workers[i].reads[n].theme = win.workers[i].loaded
             /\ win.workers[i].reads[n].inf_dir = win.workers[i].loaded
             /\ win.workers[i].reads[n].present

\* C27: a run that got past its roles has written index.theme into the
\* directory whose cursors subdirectory on_convert created for it.
C27_ManifestBesideCursors ==
    \A i \in 1..Len(win.workers) :
       win.workers[i].pc \in {"ended", "failed"}
          => win.workers[i].manifest = win.workers[i].output_dir

\* C28: every worker started is followed by exactly one completion handler;
\* a handler hides the progress display and shows the buttons, the Preview
\* and Install buttons become sensitive only in _on_conversion_done and are
\* insensitive after _on_conversion_error.
C28_OneCompletionHandler ==
    /\ [](Len(win.handled) <= Len(win.workers))
    /\ \A n \in 1..MaxRuns : (Len(win.workers) >= n) ~> (Len(win.handled) >= n)
    /\ [][/\ Len(win'.handled) > Len(win.handled)
             => /\ ~win'.progress_clamp /\ win'.button_box
                /\ win'.handled[Len(win'.handled)] = "error"
                      => ~win'.preview_btn /\ ~win'.apply_btn
          /\ (~win.preview_btn /\ win'.preview_btn) \/ (~win.apply_btn /\ win'.apply_btn)
             => win'.handled = Append(win.handled, "done")]_vars

\* two runs are over, one through each handler, and Preview is sensitive
C28_Witness ==
    /\ Len(win.handled) = 2
    /\ win.handled[1] = "error" /\ win.handled[2] = "done"
    /\ win.preview_btn /\ win.button_box /\ ~win.progress_clamp

\* base is the directory path lies in, directly
ChildOf(path, base) ==
    Len(path) = Len(base) + 1 /\ SubSeq(path, 1, Len(base)) = base

\* C29: the directory on_install_theme removes and replaces is a direct child
\* of the icons directory, and an output directory chosen by on_convert is a
\* direct child of /tmp, whatever the theme name entry holds.
C29_PathsStayBelow ==
    /\ win.install_dir # NoPath => ChildOf(win.install_dir, Dirs.icons)
    /\ \A i \in 1..Len(win.workers) :
          win.workers[i].pc # "gone" /\ win.workers[i].output_dir # Dirs.picked
             => ChildOf(win.workers[i].output_dir, Dirs.tmp)

(***************************************************************************)
(* Properties of the log queue and of the upscaling model                  *)
(***************************************************************************)

\* C22: the log view followed by the queue is always the messages in the
\* order they were queued, each once, and every message queued gets into the
\* log view, whichever thread logs and whenever the main loop flushes.
C22_LogInOrderOnce ==
    /\ [](win.log_view \o win.log_queue = [n \in 1..win.enqueued |-> n])
    /\ \A n \in 1..MaxMessages : (win.enqueued >= n) ~> (Len(win.log_view) >= n)

\* two messages are in the log view and a flush scheduled for one of them
\* is still to run on an empty queue
C22_Witness ==
    /\ win.log_view = <<1, 2>>
    /\ win.log_queue = <<>>
    /\ win.flushes > 0

====
